---- MODULE Spec2Model ----
(***************************************************************************)
(* Order execution engine of the trading API: OrderService.executeOrder,   *)
(* OrderService.cancelOrder and the OrderRepository queries they run, on   *)
(* top of the transaction() primitive (READ COMMITTED plus SELECT ... FOR  *)
(* UPDATE row locks), and the reads next to them: getUserOrders (cursor   *)
(* pagination), getOrderById and PortfolioService.getUserPortfolio.        *)
(* PoolSpec adds the connection pool the lookups of executeOrder draw      *)
(* from, ScanSpec the row locks of a locking statement taken one by one.   *)
(*                                                                         *)
(* Monetary values (Decimal.js strings, NUMERIC columns) are exact         *)
(* decimals; the model writes them as integers counting half cents, so     *)
(* '1' is 200 and '1.005' is 201.  Absent optional inputs (size, amount,   *)
(* price) are written 0: the request contract has every present value > 0. *)
(***************************************************************************)
EXTENDS Integers, Sequences, FiniteSets, TLC

\* ------------------------------------------------------------ bounds
\* number of concurrent requests (pooled connections in use) in Spec
NProc == 2
\* orders a ledger may hold in Spec (concurrent requests, few request shapes)
MaxOrders == 4
\* orders a ledger may hold in SeqSpec (one request at a time, many shapes)
SeqMaxOrders == 3
\* orders a ledger may hold in TxSpec (concurrent requests, rejecting statements)
TxMaxOrders == 3
\* the latest reading of the database clock, in ticks, in the specifications
\* in which time passes
MaxClock == 3
\* orders a ledger may hold in PageSpec (concurrent requests, paged reads)
PageMaxOrders == 3
\* orders a ledger may hold in PortfolioSpec (one request at a time,
\* changing prices)
PortfolioMaxOrders == 4
\* orders a ledger may hold in RaceSpec (concurrent requests as time passes)
RaceMaxOrders == 3
\* orders a ledger may hold in UsersSpec (concurrent requests of two users)
UsersMaxOrders == 4
\* orders a ledger may hold in ReadSpec (requests and reads)
ReadMaxOrders == 3
\* orders a ledger may hold in LimitSpec (concurrent LIMIT and MARKET requests)
LimitMaxOrders == 6
\* orders a ledger may hold in StaleSpec (concurrent requests, changing prices)
StaleMaxOrders == 3
\* orders a ledger may hold in PoolSpec (concurrent requests, bounded pool)
PoolMaxOrders == 3
\* orders a ledger may hold in ScanSpec (row locks taken one by one)
ScanMaxOrders == 4

\* ------------------------------------------------------------ constants
ARS_INSTRUMENT_ID == 66
\* price '1' of every cash order, in half cents
ArsPrice == 200
\* orders.price is NUMERIC(12, 2): one step of the column, in half cents
NumericStep == 2

\* ------------------------------------------------------------ reference data
\* users table: users 1 and 2 exist, user 9 does not
Users == {1, 2}
NoUser == 9
\* instruments table: the cash instrument, a stock with a price snapshot and
\* a stock without one; instrument 99 does not exist
StockA == 1
StockB == 2
NoInstrument == 99
Instruments == {ARS_INSTRUMENT_ID, StockA, StockB}
\* marketdata table, latest row per instrument: at first close 1.50 for StockA
\* only
CloseA == (3 * ArsPrice) \div 2
\* a later close of StockA, 2.00
CloseB == 2 * ArsPrice

findUserById(userId) == userId \in Users

findInstrumentById(instrumentId) == instrumentId \in Instruments

Procs == 1..NProc

VARIABLES
    orders,   \* the orders table: row i has id i; xid = 0 once committed,
              \* else the transaction that inserted it (invisible to others)
    pc,       \* where each request is
    req,      \* the request each transaction serves, with its resolved
              \* executionPrice and orderSize and the id of the order it
              \* returns
    snap,     \* ids visible to the locking statement a transaction waits in
    locks,    \* row ids each transaction holds FOR UPDATE
    res,      \* what the call returns or throws: "success", or the error
              \* by its message
    tx,       \* what transaction() did for each call: the statement that
              \* rejects in this call (fault), the connections acquired and
              \* released, the COMMITs and ROLLBACKs issued, the error the
              \* body raised, whether its locking statement had to wait,
              \* the reading of the clock when it began (NOW())
    now,      \* the database clock, in ticks
    marketdata, \* the marketdata table: the close of the latest snapshot of
              \* each instrument, 0 when it has none
    view      \* what the latest read (getUserOrders, getUserPortfolio,
              \* getOrderById) returned

vars == <<orders, pc, req, snap, locks, res, tx, now, marketdata, view>>

\* the close of the latest snapshot, 0 when the instrument has none (null)
getLatestMarketDataForInstrument(instrumentId) ==
    IF instrumentId \in DOMAIN marketdata THEN marketdata[instrumentId] ELSE 0

NoReq ==
    [op |-> "none", userId |-> 0, instrumentId |-> 0, side |-> "none",
     type |-> "none", size |-> 0, amount |-> 0, price |-> 0, orderId |-> 0,
     executionPrice |-> 0, orderSize |-> 0]

\* CreateOrderInput
OrderInput(userId, instrumentId, side, type, size, amount, price) ==
    [NoReq EXCEPT !.op = "execute", !.userId = userId,
                  !.instrumentId = instrumentId, !.side = side, !.type = type,
                  !.size = size, !.amount = amount, !.price = price]

CancelInput(orderId, userId) ==
    [NoReq EXCEPT !.op = "cancel", !.orderId = orderId, !.userId = userId]

\* ------------------------------------------------------------ transaction()
\* the statement of a call that rejects (the connection is lost there):
\* pool.connect(), BEGIN, the last statement of the body, COMMIT, ROLLBACK
Faults == {"none", "connect", "begin", "body", "commit", "rollback"}

NoTx ==
    [fault |-> "none", acquired |-> 0, commits |-> 0, rollbacks |-> 0,
     released |-> 0, raised |-> "none", waited |-> FALSE, startedAt |-> 0]

\* getClient() and BEGIN succeeded
Begun(fault) == [NoTx EXCEPT !.fault = fault, !.acquired = 1]

\* catch: ROLLBACK is issued; finally: the client is released
Caught(t) == [t EXCEPT !.rollbacks = @ + 1, !.released = @ + 1]

\* what the caller receives when the body raised err: `throw error` runs only
\* if the ROLLBACK before it did not reject
Rethrown(t, err) == IF t.fault = "rollback" THEN "ConnectionError" ELSE err

\* transaction() around a step of the body that ends in `next`: the body
\* raised err, or its last statement (INSERT, or the instrument lookup after
\* the UPDATE) rejected, or it goes on
BodyOutcome(next, err, t) ==
    IF next = "failed"
    THEN [next |-> "failed", res |-> Rethrown(t, err),
          tx |-> Caught([t EXCEPT !.raised = err])]
    ELSE IF next = "pending" /\ t.fault = "body"
    THEN [next |-> "failed", res |-> Rethrown(t, "ConnectionError"),
          tx |-> Caught([t EXCEPT !.raised = "ConnectionError"])]
    ELSE [next |-> next, res |-> "none", tx |-> t]

\* transaction() from getClient() to the end of the first step of the body,
\* which ends in `next` (raising err when it fails)
StartOutcome(next, err, fault) ==
    IF fault = "connect"
    THEN [next |-> "failed", res |-> "ConnectionError",
          tx |-> [NoTx EXCEPT !.fault = fault]]
    ELSE IF fault = "begin"
    THEN [next |-> "failed", res |-> "ConnectionError",
          tx |-> Caught(Begun(fault))]
    ELSE BodyOutcome(next, err, Begun(fault))

\* ------------------------------------------------------------ arithmetic
\* a decimal written into a NUMERIC(12, 2) column: rounded half up to a step
ToNumeric(price) ==
    ((2 * price + NumericStep) \div (2 * NumericStep)) * NumericStep

\* the quotient rounded up instead of down
FloorDiv_Ceil(amount, price) == (amount + price - 1) \div price

\* new Decimal(amount).dividedBy(price).floor().toNumber()
FloorDiv(amount, price) == amount \div price

RECURSIVE SumOver(_, _)
SumOver(S, f) ==
    IF S = {} THEN 0
    ELSE LET i == CHOOSE x \in S : TRUE IN f[i] + SumOver(S \ {i}, f)

\* ------------------------------------------------------------ orders table
Ids == 1..Len(orders)

\* xid of a row whose inserting transaction rolled back: no statement will
\* ever see it (its id stays consumed, as the sequence does not roll back)
Aborted == 0 - 1

\* rows a statement starting now sees (READ COMMITTED: committed rows only;
\* a transaction never reads after its own insert)
Committed == {i \in Ids : orders[i].xid = 0}

\* the INSERT run on the pool instead of the client of the transaction
createOrder_AutoCommit(orderData, p, startedAt) ==
    Append(orders,
           [id |-> Len(orders) + 1,
            instrumentId |-> orderData.instrumentId,
            userId |-> orderData.userId,
            size |-> orderData.size,
            price |-> ToNumeric(orderData.price),
            type |-> orderData.type,
            side |-> orderData.side,
            status |-> orderData.status,
            datetime |-> startedAt,
            xid |-> 0])

\* the INSERT run twice
createOrder_Twice(orderData, p, startedAt) ==
    LET row == [id |-> Len(orders) + 1,
                instrumentId |-> orderData.instrumentId,
                userId |-> orderData.userId,
                size |-> orderData.size,
                price |-> ToNumeric(orderData.price),
                type |-> orderData.type,
                side |-> orderData.side,
                status |-> orderData.status,
                datetime |-> startedAt,
                xid |-> p]
    IN Append(Append(orders, row), [row EXCEPT !.id = Len(orders) + 2])

\* INSERT INTO orders ... RETURNING: the table with the new row, uncommitted;
\* its datetime is NOW(), the time at which the transaction began
createOrder(orderData, p, startedAt) ==
    Append(orders,
           [id |-> Len(orders) + 1,
            instrumentId |-> orderData.instrumentId,
            userId |-> orderData.userId,
            size |-> orderData.size,
            price |-> ToNumeric(orderData.price),
            type |-> orderData.type,
            side |-> orderData.side,
            status |-> orderData.status,
            datetime |-> startedAt,
            xid |-> p])

OrderData(instrumentId, userId, size, price, type, side, status) ==
    [instrumentId |-> instrumentId, userId |-> userId, size |-> size,
     price |-> price, type |-> type, side |-> side, status |-> status]

\* the CASE expression of the cash aggregate, for one row
CashEffect(o, arsInstrumentId) ==
    IF o.instrumentId = arsInstrumentId /\ o.side = "CASH_IN"
    THEN o.size * o.price
    ELSE IF o.instrumentId = arsInstrumentId /\ o.side = "CASH_OUT"
    THEN 0 - o.size * o.price
    ELSE IF o.side = "BUY" THEN 0 - o.size * o.price
    ELSE IF o.side = "SELL" THEN o.size * o.price
    ELSE 0

\* WHERE userid = $1, whatever the status
CashRows_AnyStatus(userId, vis) ==
    {i \in vis : orders[i].userId = userId}

\* WHERE userid = $1 AND status IN ('FILLED', 'NEW'): resting orders reserve
CashRows_Reserving(userId, vis) ==
    {i \in vis : orders[i].userId = userId
                 /\ orders[i].status \in {"FILLED", "NEW"}}

\* WHERE userid = $1 AND status = 'FILLED', over the rows `vis`
CashRows(userId, vis) ==
    {i \in vis : orders[i].userId = userId /\ orders[i].status = "FILLED"}

\* WHERE userid = $1 AND instrumentid = $2 AND status = 'FILLED'
\* AND side IN ('BUY', 'SELL'), over the rows `vis`
PositionRows(userId, instrumentId, vis) ==
    {i \in vis : /\ orders[i].userId = userId
                 /\ orders[i].instrumentId = instrumentId
                 /\ orders[i].status = "FILLED"
                 /\ orders[i].side \in {"BUY", "SELL"}}

getUserAvailableCash(userId, arsInstrumentId, vis) ==
    LET rows == CashRows(userId, vis)
    IN SumOver(rows, [i \in rows |-> CashEffect(orders[i], arsInstrumentId)])

getUserPositionForInstrument(userId, instrumentId, vis) ==
    LET rows == PositionRows(userId, instrumentId, vis)
    IN SumOver(rows, [i \in rows |->
                        IF orders[i].side = "BUY" THEN orders[i].size
                        ELSE IF orders[i].side = "SELL" THEN 0 - orders[i].size
                        ELSE 0])

\* ------------------------------------------------------------ errors
\* NotFoundError, by message
NotFound == {"UserNotFound", "InstrumentNotFound", "OrderNotFound"}
ORDER_STATUSES == {"NEW", "FILLED", "REJECTED", "CANCELLED"}

\* `Only NEW orders can be cancelled. Current status: ${status}`
NotNew(status) == "NotNew:" \o status

\* BusinessRuleError, by message; "BusinessRule" is one executeOrder throws
BusinessRule == {"BusinessRule", "NotOwned"} \cup {NotNew(s) : s \in ORDER_STATUSES}

\* ------------------------------------------------------------ executeOrder
Throw(err) ==
    [next |-> "failed", err |-> err, executionPrice |-> 0, orderSize |-> 0,
     status |-> "none"]

\* the body reaches a createOrder call with this price, size and status
Persist(executionPrice, orderSize, status) ==
    [next |-> "pending", err |-> "none", executionPrice |-> executionPrice,
     orderSize |-> orderSize, status |-> status]

\* the body reaches a locking read with this price and size
Validate(executionPrice, orderSize) ==
    [next |-> "validate", err |-> "none", executionPrice |-> executionPrice,
     orderSize |-> orderSize, status |-> "none"]

\* executeCashOperation without its instrument check
executeCashOperation_AnyInstrument(input) ==
    LET orderSize == IF input.size # 0 THEN input.size
                     ELSE FloorDiv(input.amount, ArsPrice)
    IN IF input.side = "CASH_OUT" THEN Validate(ArsPrice, orderSize)
       ELSE Persist(ArsPrice, orderSize, "FILLED")

\* executeCashOperation up to its first await on the orders table
executeCashOperation(input) ==
    IF input.instrumentId # ARS_INSTRUMENT_ID THEN Throw("BusinessRule")
    ELSE LET orderSize == IF input.size # 0 THEN input.size
                          ELSE FloorDiv(input.amount, ArsPrice)
         IN IF input.side = "CASH_OUT" THEN Validate(ArsPrice, orderSize)
            ELSE Persist(ArsPrice, orderSize, "FILLED")

\* executeOrder refusing every order without a snapshot, LIMIT included
executeStockOperation_NeedsSnapshot(input) ==
    LET marketData == getLatestMarketDataForInstrument(input.instrumentId)
        executionPrice == IF input.type = "MARKET" THEN marketData
                          ELSE input.price
    IN IF marketData = 0 THEN Throw("BusinessRule")
       ELSE IF input.size # 0 THEN Validate(executionPrice, input.size)
       ELSE IF executionPrice = 0 THEN Throw("InternalError")
       ELSE IF FloorDiv(input.amount, executionPrice) = 0
       THEN Persist(executionPrice, 0, "REJECTED")
       ELSE Validate(executionPrice, FloorDiv(input.amount, executionPrice))

\* executeOrder sending an amount below the price to validateOrder
executeStockOperation_DustChecked(input) ==
    LET marketData == getLatestMarketDataForInstrument(input.instrumentId)
        executionPrice == IF input.type = "MARKET" THEN marketData
                          ELSE input.price
    IN IF marketData = 0 /\ input.type = "MARKET" THEN Throw("BusinessRule")
       ELSE IF input.size # 0 THEN Validate(executionPrice, input.size)
       ELSE IF executionPrice = 0 THEN Throw("InternalError")
       ELSE Validate(executionPrice, FloorDiv(input.amount, executionPrice))

\* steps 4 to 6 of executeOrder: market data, execution price, order size.
\* executionPrice 0 stands for String(undefined), which is no decimal:
\* Decimal.js throws on it, and so does the NUMERIC column.
executeStockOperation(input) ==
    LET marketData == getLatestMarketDataForInstrument(input.instrumentId)
        executionPrice == IF input.type = "MARKET" THEN marketData
                          ELSE input.price
    IN IF marketData = 0 /\ input.type = "MARKET" THEN Throw("BusinessRule")
       ELSE IF input.size # 0 THEN Validate(executionPrice, input.size)
       ELSE IF executionPrice = 0 THEN Throw("InternalError")
       ELSE IF FloorDiv(input.amount, executionPrice) = 0
       THEN Persist(executionPrice, 0, "REJECTED")
       ELSE Validate(executionPrice, FloorDiv(input.amount, executionPrice))

\* executeOrder looking the instrument up before the user
Intake_InstrumentFirst(input) ==
    IF ~findInstrumentById(input.instrumentId)
    THEN Throw("InstrumentNotFound")
    ELSE IF ~findUserById(input.userId) THEN Throw("UserNotFound")
    ELSE IF input.side \in {"CASH_IN", "CASH_OUT"}
    THEN executeCashOperation(input)
    ELSE executeStockOperation(input)

\* executeOrder from BEGIN up to its first statement on the orders table
Intake(input) ==
    IF ~findUserById(input.userId) THEN Throw("UserNotFound")
    ELSE IF ~findInstrumentById(input.instrumentId)
    THEN Throw("InstrumentNotFound")
    ELSE IF input.side \in {"CASH_IN", "CASH_OUT"}
    THEN executeCashOperation(input)
    ELSE executeStockOperation(input)

\* validateOrder without the funds check of a BUY
validateOrder_NoFundsCheck(userId, instrumentId, side, size, price, vis) ==
    IF side = "SELL"
    THEN getUserPositionForInstrument(userId, instrumentId, vis) < size
    ELSE FALSE

\* validateOrder refusing a SELL of the entire position
validateOrder_SellBelow(userId, instrumentId, side, size, price, vis) ==
    IF side = "BUY"
    THEN getUserAvailableCash(userId, ARS_INSTRUMENT_ID, vis) < size * price
    ELSE IF side = "SELL"
    THEN getUserPositionForInstrument(userId, instrumentId, vis) <= size
    ELSE FALSE

\* validateOrder: TRUE when it returns an error message, over the rows `vis`
validateOrder(userId, instrumentId, side, size, price, vis) ==
    IF side = "BUY"
    THEN getUserAvailableCash(userId, ARS_INSTRUMENT_ID, vis) < size * price
    ELSE IF side = "SELL"
    THEN getUserPositionForInstrument(userId, instrumentId, vis) < size
    ELSE FALSE

\* validateCashOutFunds refusing a withdrawal of all the cash
validateCashOutFunds_Below(userId, orderSize, vis) ==
    getUserAvailableCash(userId, ARS_INSTRUMENT_ID, vis) <= orderSize * ArsPrice

\* validateCashOutFunds: TRUE when it returns the rejected order
validateCashOutFunds(userId, orderSize, vis) ==
    getUserAvailableCash(userId, ARS_INSTRUMENT_ID, vis) < orderSize * ArsPrice

NoRow == OrderData(0, 0, 0, 0, "none", "none", "none")

Outcome(next, err, row) == [next |-> next, err |-> err, row |-> row]

\* executeOrder filling LIMIT orders at once
ExecuteDecision_LimitFilled(r, vis) ==
    IF r.side = "CASH_OUT"
    THEN IF validateCashOutFunds(r.userId, r.orderSize, vis)
         THEN Outcome("pending", "none",
                      OrderData(ARS_INSTRUMENT_ID, r.userId, r.orderSize,
                                ArsPrice, "MARKET", "CASH_OUT", "REJECTED"))
         ELSE Outcome("pending", "none",
                      OrderData(r.instrumentId, r.userId, r.orderSize,
                                ArsPrice, r.type, r.side, "FILLED"))
    ELSE IF r.executionPrice = 0 THEN Outcome("failed", "InternalError", NoRow)
    ELSE IF validateOrder(r.userId, r.instrumentId, r.side, r.orderSize,
                          r.executionPrice, vis)
    THEN Outcome("pending", "none",
                 OrderData(r.instrumentId, r.userId, r.orderSize,
                           r.executionPrice, r.type, r.side, "REJECTED"))
    ELSE Outcome("pending", "none",
                 OrderData(r.instrumentId, r.userId, r.orderSize,
                           r.executionPrice, r.type, r.side, "FILLED"))

\* executeOrder with a NUMERIC column that stores what is no decimal
ExecuteDecision_AnyPrice(r, vis) ==
    IF r.side = "CASH_OUT"
    THEN IF validateCashOutFunds(r.userId, r.orderSize, vis)
         THEN Outcome("pending", "none",
                      OrderData(ARS_INSTRUMENT_ID, r.userId, r.orderSize,
                                ArsPrice, "MARKET", "CASH_OUT", "REJECTED"))
         ELSE Outcome("pending", "none",
                      OrderData(r.instrumentId, r.userId, r.orderSize,
                                ArsPrice, r.type, r.side, "FILLED"))
    ELSE IF validateOrder(r.userId, r.instrumentId, r.side, r.orderSize,
                          r.executionPrice, vis)
    THEN Outcome("pending", "none",
                 OrderData(r.instrumentId, r.userId, r.orderSize,
                           r.executionPrice, r.type, r.side, "REJECTED"))
    ELSE Outcome("pending", "none",
                 OrderData(r.instrumentId, r.userId, r.orderSize,
                           r.executionPrice, r.type, r.side,
                           IF r.type = "MARKET" THEN "FILLED" ELSE "NEW"))

\* executeOrder reading the snapshot again once it has the lock
ExecuteDecision_FreshPrice(r, vis) ==
    LET executionPrice ==
            IF r.type = "MARKET"
            THEN getLatestMarketDataForInstrument(r.instrumentId)
            ELSE r.executionPrice
    IN IF r.side = "CASH_OUT"
       THEN IF validateCashOutFunds(r.userId, r.orderSize, vis)
            THEN Outcome("pending", "none",
                         OrderData(ARS_INSTRUMENT_ID, r.userId, r.orderSize,
                                   ArsPrice, "MARKET", "CASH_OUT", "REJECTED"))
            ELSE Outcome("pending", "none",
                         OrderData(r.instrumentId, r.userId, r.orderSize,
                                   ArsPrice, r.type, r.side, "FILLED"))
       ELSE IF executionPrice = 0
       THEN Outcome("failed", "InternalError", NoRow)
       ELSE IF validateOrder(r.userId, r.instrumentId, r.side, r.orderSize,
                             executionPrice, vis)
       THEN Outcome("pending", "none",
                    OrderData(r.instrumentId, r.userId, r.orderSize,
                              executionPrice, r.type, r.side, "REJECTED"))
       ELSE Outcome("pending", "none",
                    OrderData(r.instrumentId, r.userId, r.orderSize,
                              executionPrice, r.type, r.side,
                              IF r.type = "MARKET" THEN "FILLED" ELSE "NEW"))

\* what executeOrder does once its locking read returned the rows `vis`
ExecuteDecision(r, vis) ==
    IF r.side = "CASH_OUT"
    THEN IF validateCashOutFunds(r.userId, r.orderSize, vis)
         THEN Outcome("pending", "none",
                      OrderData(ARS_INSTRUMENT_ID, r.userId, r.orderSize,
                                ArsPrice, "MARKET", "CASH_OUT", "REJECTED"))
         ELSE Outcome("pending", "none",
                      OrderData(r.instrumentId, r.userId, r.orderSize,
                                ArsPrice, r.type, r.side, "FILLED"))
    ELSE IF r.executionPrice = 0 THEN Outcome("failed", "InternalError", NoRow)
    ELSE IF validateOrder(r.userId, r.instrumentId, r.side, r.orderSize,
                          r.executionPrice, vis)
    THEN Outcome("pending", "none",
                 OrderData(r.instrumentId, r.userId, r.orderSize,
                           r.executionPrice, r.type, r.side, "REJECTED"))
    ELSE Outcome("pending", "none",
                 OrderData(r.instrumentId, r.userId, r.orderSize,
                           r.executionPrice, r.type, r.side,
                           IF r.type = "MARKET" THEN "FILLED" ELSE "NEW"))

\* cancelOrder cancelling an order whatever its status
cancelOrderCheck_AnyStatus(found, existingOrder, userId) ==
    IF ~found THEN "OrderNotFound"
    ELSE IF existingOrder.userId # userId THEN "NotOwned"
    ELSE "none"

\* cancelOrder checking the status before the owner
cancelOrderCheck_StatusFirst(found, existingOrder, userId) ==
    IF ~found THEN "OrderNotFound"
    ELSE IF existingOrder.status # "NEW" THEN NotNew(existingOrder.status)
    ELSE IF existingOrder.userId # userId THEN "NotOwned"
    ELSE "none"

\* the checks of cancelOrder on the row its locking SELECT returned (found is
\* FALSE when it returned no row): the error thrown, "none" when all pass
cancelOrderCheck(found, existingOrder, userId) ==
    IF ~found THEN "OrderNotFound"
    ELSE IF existingOrder.userId # userId THEN "NotOwned"
    ELSE IF existingOrder.status # "NEW" THEN NotNew(existingOrder.status)
    ELSE "none"

\* what cancelOrder does once SELECT ... WHERE id = $1 FOR UPDATE returned
CancelDecision(r, vis) ==
    LET found == r.orderId \in vis
        err == cancelOrderCheck(found,
                                IF found THEN orders[r.orderId] ELSE NoRow,
                                r.userId)
    IN IF err # "none" THEN Outcome("failed", err, NoRow)
       ELSE Outcome("pending", "none", NoRow)

\* cancelOrder reading its order without FOR UPDATE
LockSet_NoRowLock(r, vis) ==
    IF r.op = "cancel" THEN {}
    ELSE IF r.side = "SELL" THEN PositionRows(r.userId, r.instrumentId, vis)
    ELSE CashRows(r.userId, vis)

\* the locking statements of executeOrder without WHERE userid = $1
LockSet_AnyUser(r, vis) ==
    IF r.op = "cancel" THEN {r.orderId} \cap vis
    ELSE IF r.side = "SELL"
    THEN UNION {PositionRows(userId, r.instrumentId, vis) : userId \in Users}
    ELSE UNION {CashRows(userId, vis) : userId \in Users}

\* the rows the locking statement of request r locks, among the rows `vis`
LockSet(r, vis) ==
    IF r.op = "cancel" THEN {r.orderId} \cap vis
    ELSE IF r.side = "SELL" THEN PositionRows(r.userId, r.instrumentId, vis)
    ELSE CashRows(r.userId, vis)

\* another transaction holds a row lock this statement needs
Blocked(p, need) == \E q \in Procs \ {p} : locks[q] \cap need # {}

\* requests that may still insert a row
InFlight == Cardinality({q \in Procs : pc[q] \in {"validate", "waiting"}})

\* ------------------------------------------------------------ reads
\* no cursor (undefined), no nextCursor (null)
NoCursor == 0 - 1

\* what getUserPortfolio returns for a user without orders
NoPortfolio ==
    [userId |-> 0, totalBalance |-> 0, availableCash |-> 0, positions |-> <<>>]

\* no read yet. A read leaves its arguments (op, userId, orderId, limit,
\* cursor), the error it threw (err) and what it returned: the ids of the
\* orders of the page with hasMore and nextCursor; for a page fetched with
\* the nextCursor of another, also that page (first). seen is the rows the
\* table held, committed or not, when the first page was fetched. A call of
\* getUserPortfolio is at the query it runs next (stage: "cash", "prices")
\* or has returned ("done"), with the FILLED orders and the cash it has read
\* and the portfolio it returned (out)
NoView ==
    [op |-> "none", userId |-> 0, orderId |-> 0, limit |-> 0,
     cursor |-> NoCursor, err |-> "none", rows |-> <<>>, hasMore |-> FALSE,
     nextCursor |-> NoCursor, first |-> <<>>, seen |-> {}, stage |-> "done",
     allOrders |-> <<>>, availableCash |-> 0, out |-> NoPortfolio]

\* the rows a query locks among those it selects, when it runs on the client
\* of a transaction with FOR UPDATE
ReadLocks_ForUpdate(rows) == rows

\* the rows a query locks among those it selects, when it runs on the pool
\* (no client given) and has no FOR UPDATE: none
ReadLocks(rows) == {}

\* a query that selects these rows has to wait for a transaction
ReadWaits(rows) == \E q \in Procs : locks[q] \cap ReadLocks(rows) # {}

\* ticks of the database clock (TIMESTAMP, microseconds) in one millisecond
TicksPerMs == 2

\* the datetime of a row as the driver hands it over, a Date: whole
\* milliseconds; toISOString() writes all of a Date, and the database reads
\* all of the string
ToDate(datetime) == (datetime \div TicksPerMs) * TicksPerMs

\* Math.min(limit, 200)
MaxLimit == 200

\* WHERE userid = $1 AND datetime <= $3
MatchingRows_AtOrBefore(userId, cursor) ==
    {i \in Committed : /\ orders[i].userId = userId
                       /\ cursor # NoCursor => orders[i].datetime <= cursor}

\* WHERE datetime < $3, whoever the user
MatchingRows_AnyUser(userId, cursor) ==
    {i \in Committed : cursor # NoCursor => orders[i].datetime < cursor}

\* WHERE userid = $1 [AND datetime < $3], over the committed rows
MatchingRows(userId, cursor) ==
    {i \in Committed : /\ orders[i].userId = userId
                       /\ cursor # NoCursor => orders[i].datetime < cursor}

\* the sequences that hold each element of S once
Perms(S) ==
    {s \in [1..Cardinality(S) -> S] :
        \A i \in DOMAIN s : \A j \in DOMAIN s : s[i] = s[j] => i = j}

\* ORDER BY datetime DESC: rows of equal datetime come in any order
OrderByDatetimeDesc(S) ==
    {s \in Perms(S) :
        \A i \in 1..(Len(s) - 1) :
            orders[s[i]].datetime >= orders[s[i + 1]].datetime}

Min(a, b) == IF a < b THEN a ELSE b

\* getOrdersByUserId, when the database returns the matching rows in the
\* order `sorted`
getOrdersByUserId(limit, sorted) ==
    LET safeLimit == Min(limit, MaxLimit)
        fetched == SubSeq(sorted, 1, Min(Len(sorted), safeLimit + 1))
        hasMore == Len(fetched) > safeLimit
        page == IF hasMore THEN SubSeq(fetched, 1, Len(fetched) - 1)
                ELSE fetched
    IN [orders |-> page,
        nextCursor |-> IF hasMore /\ Len(page) > 0
                       THEN ToDate(orders[page[Len(page)]].datetime)
                       ELSE NoCursor,
        hasMore |-> hasMore]

\* OrderService.getUserOrders
getUserOrders(userId, limit, cursor, first, seen) ==
    /\ view.stage = "done"
    /\ ~ReadWaits(MatchingRows(userId, cursor))
    /\ IF ~findUserById(userId)
       THEN view' = [NoView EXCEPT !.op = "orders", !.userId = userId,
                                   !.limit = limit, !.cursor = cursor,
                                   !.err = "UserNotFound"]
       ELSE \E sorted \in OrderByDatetimeDesc(MatchingRows(userId, cursor)) :
               LET result == getOrdersByUserId(limit, sorted)
               IN view' = [NoView EXCEPT !.op = "orders", !.userId = userId,
                                         !.limit = limit, !.cursor = cursor,
                                         !.rows = result.orders,
                                         !.hasMore = result.hasMore,
                                         !.nextCursor = result.nextCursor,
                                         !.first = first, !.seen = seen]
    /\ UNCHANGED <<orders, pc, req, snap, locks, res, tx, now, marketdata>>

\* ------------------------------------------------------------ portfolio
\* Decimal.js keeps 20 significant digits and rounds half up; the model
\* keeps DecimalScale-ths of a half cent, and a Decimal converted to a number
\* and back is the same value
DecimalScale == 100

Abs(x) == IF x < 0 THEN 0 - x ELSE x

\* a.dividedBy(b) for b # 0: the quotient rounded to the nearest unit, halves
\* away from zero
RoundDiv(a, b) ==
    LET q == (2 * Abs(a) + Abs(b)) \div (2 * Abs(b))
    IN IF (a < 0) = (b < 0) THEN q ELSE 0 - q

\* toDecimalPlaces(2) of an amount in half cents
ToDecimalPlaces2(x) == RoundDiv(x, NumericStep) * NumericStep

\* ORDER BY datetime ASC: rows of equal datetime come in any order
OrderByDatetimeAsc(S) ==
    {s \in Perms(S) :
        \A i \in 1..(Len(s) - 1) :
            orders[s[i]].datetime <= orders[s[i + 1]].datetime}

\* getFilledOrdersByUserId: what the database may return, as sequences of ids
getFilledOrdersByUserId(userId) ==
    OrderByDatetimeAsc(CashRows(userId, Committed))

\* the entry internalMap gets when an instrument is first seen
NoPosition == [quantity |-> 0, totalCost |-> 0]

\* a SELL taking its own proceeds off the cost
ReplayOrder_AtSellPrice(position, order) ==
    IF order.side = "BUY"
    THEN [quantity |-> position.quantity + order.size,
          totalCost |-> position.totalCost
                        + order.size * order.price * DecimalScale]
    ELSE IF order.side = "SELL"
    THEN IF position.quantity = 0 THEN position
         ELSE [quantity |-> position.quantity - order.size,
               totalCost |-> position.totalCost
                             - order.size * order.price * DecimalScale]
    ELSE position

\* a SELL taken off an empty position as well, at average cost 0
ReplayOrder_NoGuard(position, order) ==
    IF order.side = "BUY"
    THEN [quantity |-> position.quantity + order.size,
          totalCost |-> position.totalCost
                        + order.size * order.price * DecimalScale]
    ELSE IF order.side = "SELL"
    THEN LET avgCost == IF position.quantity = 0 THEN 0
                        ELSE RoundDiv(position.totalCost, position.quantity)
         IN [quantity |-> position.quantity - order.size,
             totalCost |-> position.totalCost - order.size * avgCost]
    ELSE position

\* one turn of the loop of calculatePositions, on the entry of the order's
\* instrument; totalCost is in DecimalScale-ths of a half cent
ReplayOrder(position, order) ==
    IF order.side = "BUY"
    THEN [quantity |-> position.quantity + order.size,
          totalCost |-> position.totalCost
                        + order.size * order.price * DecimalScale]
    ELSE IF order.side = "SELL"
    THEN IF position.quantity = 0 THEN position
         ELSE LET avgCost == RoundDiv(position.totalCost, position.quantity)
              IN [quantity |-> position.quantity - order.size,
                  totalCost |-> position.totalCost - order.size * avgCost]
    ELSE position

\* internalMap after the first k orders of the list (an instrument not seen
\* so far has the entry it would get when first seen)
RECURSIVE Replay(_, _)
Replay(stockOrders, k) ==
    IF k = 0 THEN [i \in Instruments |-> NoPosition]
    ELSE LET before == Replay(stockOrders, k - 1)
             order == orders[stockOrders[k]]
         IN [before EXCEPT ![order.instrumentId] = ReplayOrder(@, order)]

\* calculatePositions: the entries with quantity > 0
calculatePositions(stockOrders) ==
    LET internalMap == Replay(stockOrders, Len(stockOrders))
    IN [i \in {j \in Instruments : internalMap[j].quantity > 0} |->
          internalMap[i]]

\* the place of the first order of an instrument in the list: the place of
\* the instrument in the Map
FirstOrder(stockOrders, instrumentId) ==
    CHOOSE k \in DOMAIN stockOrders :
        /\ orders[stockOrders[k]].instrumentId = instrumentId
        /\ \A j \in 1..(k - 1) :
              orders[stockOrders[j]].instrumentId # instrumentId

\* one element of the array enrichPositions builds (ticker, name and
\* dailyReturn, which are copied or derived from the instrument and its
\* snapshot alone, are left out)
Position(instrumentId, calculation, close) ==
    LET averageBuyPrice == RoundDiv(calculation.totalCost, calculation.quantity)
    IN [instrumentId |-> instrumentId,
        quantity |-> calculation.quantity,
        averageBuyPrice |->
            RoundDiv(averageBuyPrice, NumericStep * DecimalScale) * NumericStep,
        currentPrice |-> ToDecimalPlaces2(close),
        marketValue |-> ToDecimalPlaces2(calculation.quantity * close),
        totalReturn |->
            IF averageBuyPrice > 0
            THEN RoundDiv((close * DecimalScale - averageBuyPrice) * 10000,
                          averageBuyPrice)
            ELSE 0]

\* enrichPositions keeping a position whose instrument has no snapshot, at
\* price 0
enrichPositions_KeepAll(stockOrders, positionCalculations, marketDataMap) ==
    LET kept == DOMAIN positionCalculations
        at == [i \in kept |-> FirstOrder(stockOrders, i)]
        position == [i \in kept |->
                        Position(i, positionCalculations[i], marketDataMap[i])]
    IN CHOOSE s \in Perms(kept) :
          \A a \in DOMAIN s : \A b \in DOMAIN s :
              a < b => \/ position[s[a]].marketValue > position[s[b]].marketValue
                       \/ /\ position[s[a]].marketValue = position[s[b]].marketValue
                          /\ at[s[a]] < at[s[b]]

\* enrichPositions: the positions whose instrument has a snapshot (and
\* metadata: every instrument of an order has), by market value descending;
\* the sort is stable, so equal values stay in the order of the Map. The
\* result lists the instruments; PositionOf gives the element of each
enrichPositions(stockOrders, positionCalculations, marketDataMap) ==
    LET kept == {i \in DOMAIN positionCalculations : marketDataMap[i] # 0}
        at == [i \in kept |-> FirstOrder(stockOrders, i)]
        position == [i \in kept |->
                        Position(i, positionCalculations[i], marketDataMap[i])]
    IN CHOOSE s \in Perms(kept) :
          \A a \in DOMAIN s : \A b \in DOMAIN s :
              a < b => \/ position[s[a]].marketValue > position[s[b]].marketValue
                       \/ /\ position[s[a]].marketValue = position[s[b]].marketValue
                          /\ at[s[a]] < at[s[b]]

\* the orders of the list that are not on the cash instrument
StockOrders(allOrders) ==
    SelectSeq(allOrders, LAMBDA i : orders[i].instrumentId # ARS_INSTRUMENT_ID)

\* getUserPortfolio, from what its queries returned: the FILLED orders of
\* the user, the available cash and the latest snapshots
getUserPortfolio(userId, allOrders, availableCash, marketDataMap) ==
    LET stockOrders == StockOrders(allOrders)
        positionCalculations == calculatePositions(stockOrders)
        enriched == enrichPositions(stockOrders, positionCalculations,
                                    marketDataMap)
        positions == [k \in DOMAIN enriched |->
                        Position(enriched[k], positionCalculations[enriched[k]],
                                 marketDataMap[enriched[k]])]
        portfolioValue ==
            SumOver(DOMAIN positions,
                    [k \in DOMAIN positions |-> positions[k].marketValue])
    IN [userId |-> userId,
        totalBalance |-> availableCash + portfolioValue,
        availableCash |-> availableCash,
        positions |-> positions]

\* ------------------------------------------------------------ actions
Init ==
    /\ orders = <<>>
    /\ pc = [p \in Procs |-> "idle"]
    /\ req = [p \in Procs |-> NoReq]
    /\ snap = [p \in Procs |-> {}]
    /\ locks = [p \in Procs |-> {}]
    /\ res = [p \in Procs |-> "none"]
    /\ tx = [p \in Procs |-> NoTx]
    /\ now = 0
    /\ marketdata = [i \in Instruments |-> IF i = StockA THEN CloseA ELSE 0]
    /\ view = NoView

\* executeOrder: transaction() begins, the body runs up to its first
\* statement on the orders table (or throws, or inserts without a check);
\* `ticks` is the time that may have passed since the latest BEGIN
ExecuteOrderStart(p, Inputs, cap, faults, ticks) ==
    /\ pc[p] = "idle"
    /\ Len(orders) + InFlight < cap
    /\ \E input \in Inputs, fault \in faults, dt \in ticks :
         LET r == Intake(input)
             o == StartOutcome(r.next, r.err, fault)
             q == IF fault \in {"connect", "begin"} THEN input
                  ELSE [input EXCEPT !.executionPrice = r.executionPrice,
                                     !.orderSize = r.orderSize,
                                     !.orderId = IF o.next = "pending"
                                                 THEN Len(orders) + 1 ELSE 0]
         IN /\ pc' = [pc EXCEPT ![p] = o.next]
            /\ req' = [req EXCEPT ![p] = q]
            /\ now + dt <= MaxClock
            /\ now' = now + dt
            /\ res' = [res EXCEPT ![p] = o.res]
            /\ tx' = [tx EXCEPT ![p] = [o.tx EXCEPT !.startedAt = now + dt]]
            /\ orders' = IF o.next = "pending"
                         THEN createOrder(OrderData(q.instrumentId, q.userId,
                                                    q.orderSize, q.executionPrice,
                                                    q.type, q.side, r.status),
                                          p, now + dt)
                         ELSE orders
    /\ UNCHANGED <<snap, locks, marketdata, view>>

\* cancelOrder: transaction() begins
CancelOrderStart(p, OrderIds, UserIds, faults) ==
    /\ pc[p] = "idle"
    /\ \E orderId \in OrderIds, userId \in UserIds, fault \in faults :
         LET o == StartOutcome("validate", "none", fault)
         IN /\ req' = [req EXCEPT ![p] = CancelInput(orderId, userId)]
            /\ pc' = [pc EXCEPT ![p] = o.next]
            /\ res' = [res EXCEPT ![p] = o.res]
            /\ tx' = [tx EXCEPT ![p] = o.tx]
    /\ UNCHANGED <<orders, snap, locks, now, marketdata, view>>

\* the locking statement returned the rows `vis`: the locks are taken and the
\* body runs to its end (throw and ROLLBACK, or INSERT / UPDATE, uncommitted)
Finish(p, vis) ==
    LET r == req[p]
        d == IF r.op = "cancel" THEN CancelDecision(r, vis)
             ELSE ExecuteDecision(r, vis)
        o == BodyOutcome(d.next, d.err, tx[p])
    IN /\ pc' = [pc EXCEPT ![p] = o.next]
       /\ res' = [res EXCEPT ![p] = o.res]
       /\ tx' = [tx EXCEPT ![p] = o.tx]
       /\ orders' = IF o.next = "pending" /\ r.op = "execute"
                    THEN createOrder(d.row, p, tx[p].startedAt) ELSE orders
       /\ locks' = [locks EXCEPT ![p] = IF o.next = "pending"
                                        THEN LockSet(r, vis) ELSE {}]
       /\ snap' = [snap EXCEPT ![p] = {}]
       /\ req' = IF o.next = "pending" /\ r.op = "execute"
                 THEN [req EXCEPT ![p].orderId = Len(orders) + 1] ELSE req
       /\ UNCHANGED <<now, marketdata, view>>

\* SELECT ... FOR UPDATE starts and no row it needs is locked by another
LockingRead(p) ==
    /\ pc[p] = "validate"
    /\ ~Blocked(p, LockSet(req[p], Committed))
    /\ Finish(p, Committed)

\* SELECT ... FOR UPDATE starts and waits for a row lock: the statement keeps
\* the snapshot it started with
LockWait(p) ==
    /\ pc[p] = "validate"
    /\ Blocked(p, LockSet(req[p], Committed))
    /\ pc' = [pc EXCEPT ![p] = "waiting"]
    /\ snap' = [snap EXCEPT ![p] = Committed]
    /\ tx' = [tx EXCEPT ![p].waited = TRUE]
    /\ UNCHANGED <<orders, req, locks, res, now, marketdata, view>>

\* the holder ended: the waiting statement gets its locks and returns the
\* rows of its own snapshot, each in its latest committed version
LockGranted(p) ==
    /\ pc[p] = "waiting"
    /\ ~Blocked(p, LockSet(req[p], snap[p]))
    /\ Finish(p, snap[p])

\* statement_timeout fires while the statement waits: ROLLBACK
LockTimeout(p) ==
    /\ pc[p] = "waiting"
    /\ LET o == BodyOutcome("failed", "Transient", tx[p])
       IN /\ pc' = [pc EXCEPT ![p] = o.next]
          /\ res' = [res EXCEPT ![p] = o.res]
          /\ tx' = [tx EXCEPT ![p] = o.tx]
    /\ snap' = [snap EXCEPT ![p] = {}]
    /\ UNCHANGED <<orders, req, locks, now, marketdata, view>>

\* COMMIT: the inserted row, or the status update, becomes visible and the
\* row locks are released; the call returns success
\* a commit whose UPDATE had no WHERE id = $2
Applied_AllRows(p) ==
    [i \in Ids |->
        IF orders[i].xid = p THEN [orders[i] EXCEPT !.xid = 0]
        ELSE IF req[p].op = "cancel"
        THEN [orders[i] EXCEPT !.status = "CANCELLED"]
        ELSE orders[i]]

\* the orders table once the transaction of p is committed
Applied(p) ==
    [i \in Ids |->
        IF orders[i].xid = p THEN [orders[i] EXCEPT !.xid = 0]
        ELSE IF req[p].op = "cancel" /\ i = req[p].orderId
        THEN [orders[i] EXCEPT !.status = "CANCELLED"]
        ELSE orders[i]]

\* the orders table once the transaction of p is rolled back
Discarded(p) ==
    [i \in Ids |->
        IF orders[i].xid = p THEN [orders[i] EXCEPT !.xid = Aborted]
        ELSE orders[i]]

Commit(p) ==
    /\ pc[p] = "pending"
    /\ tx[p].fault # "commit"
    /\ orders' = Applied(p)
    /\ pc' = [pc EXCEPT ![p] = "done"]
    /\ res' = [res EXCEPT ![p] = "success"]
    /\ tx' = [tx EXCEPT ![p].commits = @ + 1, ![p].released = @ + 1]
    /\ locks' = [locks EXCEPT ![p] = {}]
    /\ UNCHANGED <<req, snap, now, marketdata, view>>

\* COMMIT rejects because the connection is lost: the server had committed
\* before the loss, or it aborts the transaction; the catch block issues
\* ROLLBACK on the lost connection and throws
CommitFails(p) ==
    /\ pc[p] = "pending"
    /\ tx[p].fault = "commit"
    /\ \E committed \in BOOLEAN :
         orders' = IF committed THEN Applied(p) ELSE Discarded(p)
    /\ pc' = [pc EXCEPT ![p] = "failed"]
    /\ res' = [res EXCEPT ![p] = "ConnectionError"]
    /\ tx' = [tx EXCEPT ![p] = Caught([@ EXCEPT !.commits = @ + 1])]
    /\ locks' = [locks EXCEPT ![p] = {}]
    /\ UNCHANGED <<req, snap, now, marketdata, view>>

\* GET /users/:userId/orders with no cursor, or with any timestamp as cursor
GetUserOrders(UserIds, Limits, Cursors) ==
    \E userId \in UserIds, limit \in Limits, cursor \in Cursors :
        getUserOrders(userId, limit, cursor, <<>>, Ids)

\* the client asks for the page after the one it has, with its nextCursor
GetNextPage ==
    /\ view.op = "orders" /\ view.hasMore /\ view.first = <<>>
    /\ getUserOrders(view.userId, view.limit, view.nextCursor, view.rows,
                     view.seen)

\* GET /orders/:id: the order with the instrument it joins, or NotFound
GetOrderById(OrderIds) ==
    /\ view.stage = "done"
    /\ \E orderId \in OrderIds :
          /\ ~ReadWaits({orderId} \cap Committed)
          /\ view' = IF orderId \in Committed
                     THEN [NoView EXCEPT !.op = "order", !.orderId = orderId,
                                         !.rows = <<orderId>>]
                     ELSE [NoView EXCEPT !.op = "order", !.orderId = orderId,
                                         !.err = "OrderNotFound"]
    /\ UNCHANGED <<orders, pc, req, snap, locks, res, tx, now, marketdata>>

\* GET /users/:userId/portfolio: the user is looked up and the FILLED orders
\* are read
GetUserPortfolioStart(UserIds) ==
    /\ view.stage = "done"
    /\ \E userId \in UserIds :
          IF ~findUserById(userId)
          THEN view' = [NoView EXCEPT !.op = "portfolio", !.userId = userId,
                                      !.err = "UserNotFound"]
          ELSE /\ ~ReadWaits(CashRows(userId, Committed))
               /\ \E allOrders \in getFilledOrdersByUserId(userId) :
                     view' = [NoView EXCEPT !.op = "portfolio",
                                           !.userId = userId,
                                           !.stage = "cash",
                                           !.allOrders = allOrders]
    /\ UNCHANGED <<orders, pc, req, snap, locks, res, tx, now, marketdata>>

\* getUserPortfolio deriving the cash from the orders it has read
GetUserPortfolioCash_FromOrders ==
    /\ view.op = "portfolio" /\ view.stage = "cash"
    /\ ~ReadWaits(CashRows(view.userId, Committed))
    /\ LET rows == {view.allOrders[k] : k \in DOMAIN view.allOrders}
           availableCash ==
               getUserAvailableCash(view.userId, ARS_INSTRUMENT_ID, rows)
           held == DOMAIN calculatePositions(StockOrders(view.allOrders))
       IN view' = IF held = {}
                  THEN [view EXCEPT !.stage = "done",
                                    !.availableCash = availableCash,
                                    !.out = [NoPortfolio EXCEPT
                                               !.userId = view.userId,
                                               !.totalBalance = availableCash,
                                               !.availableCash = availableCash]]
                  ELSE [view EXCEPT !.stage = "prices",
                                    !.availableCash = availableCash]
    /\ UNCHANGED <<orders, pc, req, snap, locks, res, tx, now, marketdata>>

\* getUserPortfolio reads the available cash, and returns if the orders it
\* has read leave no position
GetUserPortfolioCash ==
    /\ view.op = "portfolio" /\ view.stage = "cash"
    /\ ~ReadWaits(CashRows(view.userId, Committed))
    /\ LET availableCash ==
               getUserAvailableCash(view.userId, ARS_INSTRUMENT_ID, Committed)
           held == DOMAIN calculatePositions(StockOrders(view.allOrders))
       IN view' = IF held = {}
                  THEN [view EXCEPT !.stage = "done",
                                    !.availableCash = availableCash,
                                    !.out = [NoPortfolio EXCEPT
                                               !.userId = view.userId,
                                               !.totalBalance = availableCash,
                                               !.availableCash = availableCash]]
                  ELSE [view EXCEPT !.stage = "prices",
                                    !.availableCash = availableCash]
    /\ UNCHANGED <<orders, pc, req, snap, locks, res, tx, now, marketdata>>

\* getUserPortfolio reads the latest snapshots and the instruments, and
\* returns
GetUserPortfolioFinish ==
    /\ view.op = "portfolio" /\ view.stage = "prices"
    /\ view' = [view EXCEPT !.stage = "done",
                            !.out = getUserPortfolio(view.userId, view.allOrders,
                                                     view.availableCash,
                                                     marketdata)]
    /\ UNCHANGED <<orders, pc, req, snap, locks, res, tx, now, marketdata>>

\* the market data feed (outside this repository) writes the marketdata
\* table: a newer snapshot of an instrument with another close, or none left
MarketDataFeed(InstrumentIds, Closes) ==
    /\ \E instrumentId \in InstrumentIds, close \in Closes :
          /\ close # marketdata[instrumentId]
          /\ marketdata' = [marketdata EXCEPT ![instrumentId] = close]
    /\ UNCHANGED <<orders, pc, req, snap, locks, res, tx, now, view>>

\* the caller has the result; the connection serves the next request
Return(p) ==
    /\ pc[p] \in {"done", "failed"}
    /\ pc' = [pc EXCEPT ![p] = "idle"]
    /\ req' = [req EXCEPT ![p] = NoReq]
    /\ res' = [res EXCEPT ![p] = "none"]
    /\ tx' = [tx EXCEPT ![p] = NoTx]
    /\ UNCHANGED <<orders, snap, locks, now, marketdata, view>>

\* ------------------------------------------------------------ row locks
\* SELECT ... FOR UPDATE locks the rows it returns one by one as it scans
\* them, and the locking statements have no ORDER BY: the order of the rows
\* is the one the plan of the statement produces, any order here

\* the rows the locking statement of p has yet to lock
ToLock(p) == LockSet(req[p], snap[p]) \ locks[p]

\* no other transaction holds a lock on row i
Free(p, i) == \A q \in Procs \ {p} : i \notin locks[q]

\* the locking statement starts: it takes its snapshot and begins its scan
ScanStart(p) ==
    /\ pc[p] = "validate"
    /\ pc' = [pc EXCEPT ![p] = "waiting"]
    /\ snap' = [snap EXCEPT ![p] = Committed]
    /\ UNCHANGED <<orders, req, locks, res, tx, now, marketdata, view>>

\* the scan comes to a row no other transaction has locked, and locks it
LockRow(p) ==
    /\ pc[p] = "waiting"
    /\ \E i \in ToLock(p) :
          /\ Free(p, i)
          /\ locks' = [locks EXCEPT ![p] = @ \cup {i}]
    /\ UNCHANGED <<orders, pc, req, snap, res, tx, now, marketdata, view>>

\* the scan has locked every row: the statement returns them and the body
\* runs to its end
ScanEnd(p) ==
    /\ pc[p] = "waiting"
    /\ ToLock(p) = {}
    /\ Finish(p, snap[p])

\* the scan waits at a row another transaction has locked until
\* statement_timeout fires, or until the deadlock detector of the database
\* picks the transaction: the statement fails, ROLLBACK releases the locks
ScanAbort(p) ==
    /\ pc[p] = "waiting"
    /\ \E i \in ToLock(p) : ~Free(p, i)
    /\ LET o == BodyOutcome("failed", "Transient", tx[p])
       IN /\ pc' = [pc EXCEPT ![p] = o.next]
          /\ res' = [res EXCEPT ![p] = o.res]
          /\ tx' = [tx EXCEPT ![p] = o.tx]
    /\ locks' = [locks EXCEPT ![p] = {}]
    /\ snap' = [snap EXCEPT ![p] = {}]
    /\ UNCHANGED <<orders, req, now, marketdata, view>>

\* ------------------------------------------------------------ pool
\* connections of the pool (DB_MAX_CONNECTIONS): as many as there are
\* concurrent requests
PoolSize == NProc

\* connections checked out by transaction() and not yet released (a query()
\* checks one out and returns it within its step)
InUse ==
    Cardinality({p \in Procs : tx[p].acquired = 1 /\ tx[p].released = 0})

\* requests between BEGIN and their first lookup
InLookup == Cardinality({q \in Procs : pc[q] = "lookup"})

\* executeOrder: transaction() gets its client from the pool, which has one
\* free (a request for which none is free waits in the queue of the pool),
\* and BEGIN runs
GetClient(p, Inputs, cap) ==
    /\ pc[p] = "idle"
    /\ InUse < PoolSize
    /\ Len(orders) + InFlight + InLookup < cap
    /\ \E input \in Inputs :
          /\ req' = [req EXCEPT ![p] = input]
          /\ tx' = [tx EXCEPT ![p] = [Begun("none") EXCEPT !.startedAt = now]]
    /\ pc' = [pc EXCEPT ![p] = "lookup"]
    /\ UNCHANGED <<orders, snap, locks, res, now, marketdata, view>>

\* the body looks up the user, the instrument and the snapshot through
\* query(), that is pool.query(): each lookup takes a free connection of the
\* pool, other than the client of the transaction, and returns it; the body
\* then runs up to its first statement on the orders table
Lookup(p) ==
    /\ pc[p] = "lookup"
    /\ InUse < PoolSize
    /\ LET r == Intake(req[p])
           o == BodyOutcome(r.next, r.err, tx[p])
           q == [req[p] EXCEPT !.executionPrice = r.executionPrice,
                               !.orderSize = r.orderSize,
                               !.orderId = IF o.next = "pending"
                                           THEN Len(orders) + 1 ELSE 0]
       IN /\ pc' = [pc EXCEPT ![p] = o.next]
          /\ req' = [req EXCEPT ![p] = q]
          /\ res' = [res EXCEPT ![p] = o.res]
          /\ tx' = [tx EXCEPT ![p] = o.tx]
          /\ orders' = IF o.next = "pending"
                       THEN createOrder(OrderData(q.instrumentId, q.userId,
                                                  q.orderSize, q.executionPrice,
                                                  q.type, q.side, r.status),
                                        p, tx[p].startedAt)
                       ELSE orders
    /\ UNCHANGED <<snap, locks, now, marketdata, view>>

\* no connection is free for connectionTimeoutMillis: pool.query() rejects,
\* the body raises, ROLLBACK runs and the client is released
LookupTimeout(p) ==
    /\ pc[p] = "lookup"
    /\ InUse = PoolSize
    /\ LET o == BodyOutcome("failed", "ConnectionError", tx[p])
       IN /\ pc' = [pc EXCEPT ![p] = o.next]
          /\ res' = [res EXCEPT ![p] = o.res]
          /\ tx' = [tx EXCEPT ![p] = o.tx]
    /\ UNCHANGED <<orders, req, snap, locks, now, marketdata, view>>

\* ------------------------------------------------------------ Spec
\* concurrent MARKET requests of one user on the cash instrument and StockA
ConcInputs ==
    {OrderInput(1, ARS_INSTRUMENT_ID, "CASH_IN", "MARKET", 2, 0, 0),
     OrderInput(1, StockA, "BUY", "MARKET", 1, 0, 0),
     OrderInput(1, StockA, "SELL", "MARKET", 1, 0, 0)}

Next ==
    \E p \in Procs :
        \/ ExecuteOrderStart(p, ConcInputs, MaxOrders, {"none"}, {0})
        \/ LockingRead(p)
        \/ LockWait(p)
        \/ LockGranted(p)
        \/ LockTimeout(p)
        \/ Commit(p)
        \/ Return(p)

Spec == Init /\ [][Next]_vars

\* ------------------------------------------------------------ SeqSpec
\* one request at a time (no overlap), over every shape of request: cash
\* operations of both types, by size and by amount, on the cash instrument
\* and on a stock; BUY and SELL, MARKET and LIMIT, with and without a price,
\* by size and by amount, with and without a snapshot; missing user or
\* instrument
SeqCashInputs ==
    {OrderInput(1, ARS_INSTRUMENT_ID, "CASH_IN", "MARKET", size, 0, 0) :
        size \in {2, 3}}
    \cup {OrderInput(1, ARS_INSTRUMENT_ID, "CASH_IN", "LIMIT", 2, 0, 0),
          OrderInput(1, ARS_INSTRUMENT_ID, "CASH_OUT", "MARKET", 2, 0, 0),
          OrderInput(1, ARS_INSTRUMENT_ID, "CASH_OUT", "LIMIT", 3, 0, 0),
          OrderInput(1, ARS_INSTRUMENT_ID, "CASH_IN", "MARKET", 0, ArsPrice \div 2, 0)}
    \cup {OrderInput(1, StockA, side, "MARKET", 2, 0, 0) :
            side \in {"CASH_IN", "CASH_OUT"}}

SeqStockInputs ==
    {OrderInput(1, StockA, side, "MARKET", size, 0, 0) :
        side \in {"BUY", "SELL"}, size \in {1, 2}}
    \cup {OrderInput(1, StockA, side, "LIMIT", 1, 0, ArsPrice) :
            side \in {"BUY", "SELL"}}
    \cup {OrderInput(1, StockA, "BUY", "MARKET", 1, 0, ArsPrice),
          OrderInput(1, StockA, "BUY", "LIMIT", 1, 0, ArsPrice + 1),
          OrderInput(1, StockA, "BUY", "MARKET", 0, ArsPrice \div 2, 0),
          OrderInput(1, StockA, "BUY", "MARKET", 0, 2 * ArsPrice, 0),
          OrderInput(1, StockA, "BUY", "LIMIT", 1, 0, 0),
          OrderInput(1, StockA, "SELL", "LIMIT", 1, 0, 0),
          OrderInput(1, StockA, "BUY", "LIMIT", 0, 2 * ArsPrice, 0),
          OrderInput(1, StockA, "SELL", "LIMIT", 0, 2 * ArsPrice, 0),
          OrderInput(1, StockA, "BUY", "LIMIT", 0, 2 * ArsPrice, ArsPrice + 1),
          OrderInput(1, StockA, "SELL", "MARKET", 0, 2 * CloseA, 0),
          OrderInput(1, StockA, "SELL", "LIMIT", 0, ArsPrice \div 2, ArsPrice)}
    \cup {OrderInput(1, StockB, side, tp[1], 1, 0, tp[2]) :
            side \in {"BUY", "SELL"},
            tp \in {<<"MARKET", 0>>, <<"LIMIT", ArsPrice>>}}

SeqBadInputs ==
    {OrderInput(NoUser, StockA, "BUY", "MARKET", 1, 0, 0),
     OrderInput(1, NoInstrument, "BUY", "MARKET", 1, 0, 0),
     OrderInput(NoUser, NoInstrument, "BUY", "MARKET", 1, 0, 0),
     OrderInput(NoUser, ARS_INSTRUMENT_ID, "CASH_IN", "MARKET", 2, 0, 0)}

SeqInputs == SeqCashInputs \cup SeqStockInputs \cup SeqBadInputs

SeqNext ==
    \/ ExecuteOrderStart(1, SeqInputs, SeqMaxOrders, {"none"}, {0})
    \/ CancelOrderStart(1, 1..SeqMaxOrders, {1, NoUser}, {"none"})
    \/ LockingRead(1)
    \/ Commit(1)
    \/ Return(1)

SeqSpec == Init /\ [][SeqNext]_vars

\* ------------------------------------------------------------ CancelSpec
\* concurrent requests of one user that leave resting LIMIT orders, and
\* concurrent cancellations of them
CancelInputs ==
    {OrderInput(1, ARS_INSTRUMENT_ID, "CASH_IN", "MARKET", 2, 0, 0),
     OrderInput(1, StockA, "BUY", "LIMIT", 1, 0, ArsPrice)}

CancelNext ==
    \E p \in Procs :
        \/ ExecuteOrderStart(p, CancelInputs, MaxOrders, {"none"}, {0})
        \/ CancelOrderStart(p, 1..MaxOrders, {1}, {"none"})
        \/ LockingRead(p)
        \/ LockWait(p)
        \/ LockGranted(p)
        \/ LockTimeout(p)
        \/ Commit(p)
        \/ Return(p)

CancelSpec == Init /\ [][CancelNext]_vars

\* ------------------------------------------------------------ TxSpec
\* the same requests when any one statement of transaction() may reject
TxNext ==
    \E p \in Procs :
        \/ ExecuteOrderStart(p, CancelInputs, TxMaxOrders, Faults, {0})
        \/ CancelOrderStart(p, 1..TxMaxOrders, {1}, Faults)
        \/ LockingRead(p)
        \/ LockWait(p)
        \/ LockGranted(p)
        \/ LockTimeout(p)
        \/ Commit(p)
        \/ CommitFails(p)
        \/ Return(p)

TxSpec == Init /\ [][TxNext]_vars

\* ------------------------------------------------------------ PageSpec
\* concurrent deposits of two users and withdrawals of one while time
\* passes, and a client that reads the orders of a user page by page
PageInputs ==
    {OrderInput(userId, ARS_INSTRUMENT_ID, "CASH_IN", "MARKET", 2, 0, 0) :
        userId \in Users}
    \cup {OrderInput(1, ARS_INSTRUMENT_ID, "CASH_OUT", "MARKET", 1, 0, 0)}

PageNext ==
    \/ \E p \in Procs :
          \/ ExecuteOrderStart(p, PageInputs, PageMaxOrders, {"none"}, {0, 1})
          \/ LockingRead(p)
          \/ LockWait(p)
          \/ LockGranted(p)
          \/ LockTimeout(p)
          \/ Commit(p)
          \/ Return(p)
    \/ GetUserOrders({1, NoUser}, {1, 2, MaxLimit + 1}, {NoCursor})
    \/ GetNextPage

PageSpec == Init /\ [][PageNext]_vars

\* ------------------------------------------------------------ PortfolioSpec
\* MARKET requests of one user on the cash instrument and StockA, one at a
\* time, while time passes and the close of StockA changes
PortfolioInputs ==
    {OrderInput(1, ARS_INSTRUMENT_ID, "CASH_IN", "MARKET", 5, 0, 0),
     OrderInput(1, StockA, "BUY", "MARKET", 1, 0, 0),
     OrderInput(1, StockA, "BUY", "MARKET", 2, 0, 0),
     OrderInput(1, StockA, "SELL", "MARKET", 1, 0, 0)}

PortfolioNext ==
    \/ ExecuteOrderStart(1, PortfolioInputs, PortfolioMaxOrders, {"none"},
                         {0, 1})
    \/ LockingRead(1)
    \/ Commit(1)
    \/ Return(1)
    \/ MarketDataFeed({StockA}, {0, CloseA, CloseB})

PortfolioSpec == Init /\ [][PortfolioNext]_vars

\* ------------------------------------------------------------ RaceSpec
\* concurrent MARKET requests of one user on the cash instrument and StockA
\* while time passes
RaceNext ==
    \E p \in Procs :
        \/ ExecuteOrderStart(p, ConcInputs, RaceMaxOrders, {"none"}, {0, 1})
        \/ LockingRead(p)
        \/ LockWait(p)
        \/ LockGranted(p)
        \/ LockTimeout(p)
        \/ Commit(p)
        \/ Return(p)

RaceSpec == Init /\ [][RaceNext]_vars

\* ------------------------------------------------------------ UsersSpec
\* concurrent MARKET requests of two users, and cancellations by either of
\* any order
UsersInputs ==
    {OrderInput(userId, ARS_INSTRUMENT_ID, "CASH_IN", "MARKET", 2, 0, 0) :
        userId \in Users}
    \cup {OrderInput(userId, StockA, "BUY", "MARKET", 1, 0, 0) :
            userId \in Users}

UsersNext ==
    \E p \in Procs :
        \/ ExecuteOrderStart(p, UsersInputs, UsersMaxOrders, {"none"}, {0})
        \/ CancelOrderStart(p, 1..UsersMaxOrders, Users, {"none"})
        \/ LockingRead(p)
        \/ LockWait(p)
        \/ LockGranted(p)
        \/ LockTimeout(p)
        \/ Commit(p)
        \/ Return(p)

UsersSpec == Init /\ [][UsersNext]_vars

\* ------------------------------------------------------------ ReadSpec
\* MARKET requests of one user, one at a time, and a client that reads
\* portfolios, orders and pages of orders at any moment
ReadNext ==
    \/ ExecuteOrderStart(1, ConcInputs, ReadMaxOrders, {"none"}, {0})
    \/ LockingRead(1)
    \/ Commit(1)
    \/ Return(1)
    \/ GetUserPortfolioStart({1, NoUser})
    \/ GetUserPortfolioCash
    \/ GetUserPortfolioFinish
    \/ GetOrderById(1..ReadMaxOrders)
    \/ GetUserOrders({1}, {1}, {NoCursor})
    \/ GetNextPage

ReadSpec == Init /\ [][ReadNext]_vars

\* ------------------------------------------------------------ LimitSpec
\* concurrent requests of one user: a deposit, a MARKET BUY that leaves cash
\* for one LIMIT BUY, LIMIT BUYs at half the price of the cash instrument,
\* LIMIT SELLs of the share
LimitInputs ==
    {OrderInput(1, ARS_INSTRUMENT_ID, "CASH_IN", "MARKET", 2, 0, 0),
     OrderInput(1, StockA, "BUY", "MARKET", 1, 0, 0),
     OrderInput(1, StockA, "BUY", "LIMIT", 1, 0, ArsPrice \div 2),
     OrderInput(1, StockA, "SELL", "LIMIT", 1, 0, ArsPrice)}

LimitNext ==
    \E p \in Procs :
        \/ ExecuteOrderStart(p, LimitInputs, LimitMaxOrders, {"none"}, {0})
        \/ LockingRead(p)
        \/ LockWait(p)
        \/ LockGranted(p)
        \/ LockTimeout(p)
        \/ Commit(p)
        \/ Return(p)

LimitSpec == Init /\ [][LimitNext]_vars

\* ------------------------------------------------------------ StaleSpec
\* concurrent MARKET requests of one user on the cash instrument and StockA
\* while snapshots of StockA are appended, one of them above the deposit
StaleCloses == {CloseA, CloseB, 2 * CloseA}

StaleNext ==
    \/ \E p \in Procs :
          \/ ExecuteOrderStart(p, ConcInputs, StaleMaxOrders, {"none"}, {0})
          \/ LockingRead(p)
          \/ LockWait(p)
          \/ LockGranted(p)
          \/ LockTimeout(p)
          \/ Commit(p)
          \/ Return(p)
    \/ MarketDataFeed({StockA}, StaleCloses)

StaleSpec == Init /\ [][StaleNext]_vars

\* ------------------------------------------------------------ PoolSpec
\* concurrent MARKET requests of one user over a pool of PoolSize
\* connections, with the lookups of the body as steps of their own. No
\* request waits for a row lock here: while one holds a lock, and with it
\* one connection of PoolSize, another that has its client finds no free
\* connection for its lookups and does not get to its locking read
PoolNext ==
    \E p \in Procs :
        \/ GetClient(p, ConcInputs, PoolMaxOrders)
        \/ Lookup(p)
        \/ LookupTimeout(p)
        \/ LockingRead(p)
        \/ Commit(p)
        \/ Return(p)

PoolSpec == Init /\ [][PoolNext]_vars

\* ------------------------------------------------------------ ScanSpec
\* concurrent deposits, LIMIT BUYs and cancellations of one user, with the
\* row locks of a locking statement taken one by one
ScanNext ==
    \E p \in Procs :
        \/ ExecuteOrderStart(p, CancelInputs, ScanMaxOrders, {"none"}, {0})
        \/ CancelOrderStart(p, 1..ScanMaxOrders, {1}, {"none"})
        \/ ScanStart(p)
        \/ LockRow(p)
        \/ ScanEnd(p)
        \/ ScanAbort(p)
        \/ Commit(p)
        \/ Return(p)

ScanSpec == Init /\ [][ScanNext]_vars

\* every step of a transaction that can be taken is taken in the end: the
\* database runs each statement it was sent; a transaction that waits for a
\* row lock is in the queue of that lock and gets it when it is released
\* again and again (strong fairness), and a wait that never ends otherwise
\* is ended by statement_timeout
FairScanSpec ==
    /\ ScanSpec
    /\ \A p \in Procs :
          /\ WF_vars(ScanStart(p))
          /\ SF_vars(LockRow(p))
          /\ WF_vars(ScanEnd(p))
          /\ WF_vars(ScanAbort(p))
          /\ WF_vars(Commit(p))

\* ------------------------------------------------------------ claims
\* a request that returned (or is about to return) an order it inserted
Persisted(p) ==
    /\ req[p].op = "execute"
    /\ pc[p] \in {"pending", "done"}

\* the order the request of p inserted
Row(p) == orders[req[p].orderId]

\* C1: two MARKET BUY requests of one user, each costing more than half and
\* at most all of the cash C the committed ledger holds without them, are
\* never both persisted FILLED (one of them is REJECTED).
C1_NoOverspend ==
    \A p, q \in Procs :
        (/\ p # q
         /\ Persisted(p) /\ Persisted(q)
         /\ pc[p] = "done" /\ pc[q] = "done"
         /\ req[p].userId = req[q].userId
         /\ req[p].side = "BUY" /\ req[q].side = "BUY"
         /\ req[p].type = "MARKET" /\ req[q].type = "MARKET"
         /\ LET C == getUserAvailableCash(req[p].userId, ARS_INSTRUMENT_ID,
                         Committed \ {req[p].orderId, req[q].orderId})
                cp == Row(p).size * Row(p).price
                cq == Row(q).size * Row(q).price
            IN /\ 2 * cp > C /\ cp <= C
               /\ 2 * cq > C /\ cq <= C)
        => ~(Row(p).status = "FILLED" /\ Row(q).status = "FILLED")

\* C2: the net quantity of every user in every instrument, over committed
\* FILLED BUY and SELL orders, is never negative.
C2_NoOversell ==
    \A u \in Users, i \in Instruments :
        getUserPositionForInstrument(u, i, Committed) >= 0

\* the committed ledger the request of p was decided on, when no other
\* request overlaps it
Before(p) == Committed \ {req[p].orderId}

\* C3: with one request at a time, the available cash of every user over the
\* committed ledger is never negative.
C3_Conservation ==
    \A u \in Users : getUserAvailableCash(u, ARS_INSTRUMENT_ID, Committed) >= 0

\* a FILLED BUY has spent all the cash there was
C3_Witness ==
    /\ \E i \in Committed : orders[i].side = "BUY" /\ orders[i].status = "FILLED"
    /\ \E i \in Committed : orders[i].side = "CASH_IN" /\ orders[i].size > 0
    /\ getUserAvailableCash(1, ARS_INSTRUMENT_ID, Committed) = 0

\* C4: a BUY of resolved size > 0 is persisted REJECTED exactly when
\* size * price exceeds the available cash, its row carries the resolved price
\* and size, and the call returns success.
C4_BuyRejection ==
    \A p \in Procs :
        (Persisted(p) /\ req[p].side = "BUY" /\ req[p].orderSize > 0)
        => /\ Row(p).status = "REJECTED"
                <=> req[p].orderSize * req[p].executionPrice
                      > getUserAvailableCash(req[p].userId, ARS_INSTRUMENT_ID,
                                             Before(p))
           /\ Row(p).size = req[p].orderSize
           /\ Row(p).price = req[p].executionPrice
           /\ pc[p] = "done" => res[p] = "success"

\* C5: a SELL of resolved size > 0 is persisted REJECTED exactly when the size
\* exceeds the net FILLED position; the call returns success, and a SELL call
\* fails only for a missing reference, a MARKET order without a snapshot or a
\* LIMIT order without a price.
C5_SellRejection ==
    \A p \in Procs :
        /\ (Persisted(p) /\ req[p].side = "SELL" /\ req[p].orderSize > 0)
           => /\ Row(p).status = "REJECTED"
                   <=> req[p].orderSize
                         > getUserPositionForInstrument(
                               req[p].userId, req[p].instrumentId, Before(p))
              /\ pc[p] = "done" => res[p] = "success"
        /\ (pc[p] = "failed" /\ req[p].side = "SELL")
           => \/ ~findUserById(req[p].userId)
              \/ ~findInstrumentById(req[p].instrumentId)
              \/ /\ req[p].type = "MARKET"
                 /\ getLatestMarketDataForInstrument(req[p].instrumentId) = 0
              \/ req[p].type = "LIMIT" /\ req[p].price = 0

\* a SELL of the entire position is FILLED
C5_Witness ==
    \E p \in Procs :
        /\ pc[p] = "done" /\ req[p].side = "SELL" /\ res[p] = "success"
        /\ Row(p).status = "FILLED"
        /\ req[p].orderSize = getUserPositionForInstrument(
                                  req[p].userId, req[p].instrumentId, Before(p))

\* C6: executeOrder for a missing user or instrument throws NotFound and
\* leaves the orders table as it was; the user is checked first.
C6_NotFound ==
    [][\A p \in Procs :
         (/\ pc[p] = "idle" /\ pc'[p] # "idle"
          /\ req'[p].op = "execute"
          /\ \/ ~findUserById(req'[p].userId)
             \/ ~findInstrumentById(req'[p].instrumentId))
         => /\ pc'[p] = "failed"
            /\ res'[p] = IF ~findUserById(req'[p].userId)
                         THEN "UserNotFound" ELSE "InstrumentNotFound"
            /\ orders' = orders]_vars

\* user and instrument both missing: the error names the user
C6_Witness ==
    \E p \in Procs :
        /\ pc[p] = "failed" /\ req[p].op = "execute"
        /\ req[p].userId = NoUser /\ req[p].instrumentId = NoInstrument
        /\ res[p] = "UserNotFound"

\* C7: a cash operation on an instrument other than the cash instrument
\* throws BusinessRule and writes no row; every CASH_IN or CASH_OUT row is on
\* the cash instrument at price 1.
C7_CashInstrument ==
    /\ \A i \in Ids :
         orders[i].side \in {"CASH_IN", "CASH_OUT"}
         => /\ orders[i].instrumentId = ARS_INSTRUMENT_ID
            /\ orders[i].price = ArsPrice
    /\ \A p \in Procs :
         (/\ req[p].op = "execute"
          /\ req[p].side \in {"CASH_IN", "CASH_OUT"}
          /\ findUserById(req[p].userId)
          /\ findInstrumentById(req[p].instrumentId)
          /\ req[p].instrumentId # ARS_INSTRUMENT_ID)
         => /\ pc[p] = "failed"
            /\ res[p] = "BusinessRule"
            /\ req[p].orderId = 0

C7_Witness ==
    \E p \in Procs :
        /\ pc[p] = "failed" /\ res[p] = "BusinessRule"
        /\ req[p].side = "CASH_OUT" /\ req[p].instrumentId = StockA
        /\ \E i \in Committed : orders[i].side = "CASH_IN"

\* C8: every CASH_IN row is FILLED; a CASH_OUT row is FILLED when its size is
\* at most the available cash and REJECTED otherwise, for MARKET and LIMIT
\* requests alike, and the call returns success.
C8_CashNeverNew ==
    /\ \A i \in Ids :
         /\ orders[i].side = "CASH_IN" => orders[i].status = "FILLED"
         /\ orders[i].side = "CASH_OUT"
            => orders[i].status \in {"FILLED", "REJECTED"}
    /\ \A p \in Procs :
         (Persisted(p) /\ req[p].side = "CASH_OUT")
         => /\ Row(p).side = "CASH_OUT"
            /\ Row(p).status =
                 IF req[p].orderSize * ArsPrice
                      <= getUserAvailableCash(req[p].userId,
                                              ARS_INSTRUMENT_ID, Before(p))
                 THEN "FILLED" ELSE "REJECTED"
            /\ pc[p] = "done" => res[p] = "success"

\* a LIMIT CASH_OUT of all the cash is FILLED
C8_Witness ==
    \E p \in Procs :
        /\ pc[p] = "done" /\ res[p] = "success"
        /\ req[p].side = "CASH_OUT" /\ req[p].type = "LIMIT"
        /\ Row(p).status = "FILLED"
        /\ req[p].orderSize * ArsPrice
             = getUserAvailableCash(req[p].userId, ARS_INSTRUMENT_ID, Before(p))

\* a request for BUY or SELL whose user and instrument exist and whose
\* instrument has no price snapshot
NoSnapshot(p) ==
    /\ req[p].op = "execute" /\ req[p].side \in {"BUY", "SELL"}
    /\ findUserById(req[p].userId)
    /\ findInstrumentById(req[p].instrumentId)
    /\ getLatestMarketDataForInstrument(req[p].instrumentId) = 0

\* C9: without a price snapshot a MARKET BUY or SELL throws BusinessRule and
\* writes no row, and a LIMIT BUY or SELL is validated at the price the caller
\* gave and persisted (REJECTED or NEW).
C9_NoSnapshot ==
    \A p \in Procs :
        /\ (NoSnapshot(p) /\ req[p].type = "MARKET")
           => /\ pc[p] = "failed"
              /\ res[p] = "BusinessRule"
              /\ req[p].orderId = 0
        /\ (NoSnapshot(p) /\ req[p].type = "LIMIT" /\ req[p].price # 0)
           => /\ pc[p] # "failed"
              /\ req[p].executionPrice = req[p].price
              /\ Persisted(p)
                 => Row(p).status =
                      IF \/ /\ req[p].side = "BUY"
                            /\ req[p].orderSize * req[p].price
                                 > getUserAvailableCash(req[p].userId,
                                       ARS_INSTRUMENT_ID, Before(p))
                         \/ /\ req[p].side = "SELL"
                            /\ req[p].orderSize
                                 > getUserPositionForInstrument(req[p].userId,
                                       req[p].instrumentId, Before(p))
                      THEN "REJECTED" ELSE "NEW"

\* a LIMIT BUY on the instrument without a snapshot rests as NEW
C9_Witness ==
    \E p \in Procs :
        /\ NoSnapshot(p) /\ req[p].type = "LIMIT" /\ req[p].side = "BUY"
        /\ pc[p] = "done" /\ res[p] = "success"
        /\ Row(p).status = "NEW"

\* C10: the price of every BUY or SELL row is the latest close for a MARKET
\* order and the price the caller gave for a LIMIT order.
C10_PersistedPrice ==
    \A p \in Procs :
        (Persisted(p) /\ req[p].side \in {"BUY", "SELL"})
        => Row(p).price =
             IF req[p].type = "MARKET"
             THEN getLatestMarketDataForInstrument(req[p].instrumentId)
             ELSE req[p].price

\* the execution price of a BUY or SELL request: the latest close for MARKET,
\* the price of the request for LIMIT (0 when there is none)
Resolved(r) ==
    IF r.type = "MARKET" THEN getLatestMarketDataForInstrument(r.instrumentId)
    ELSE r.price

\* C11: the row of a BUY or SELL request that gives a size has that size; the
\* row of one that gives an amount has the size floor(amount / executionPrice),
\* the one with size * price <= amount < (size + 1) * price.
C11_AmountRounding ==
    \A p \in Procs :
        (Persisted(p) /\ req[p].side \in {"BUY", "SELL"})
        => /\ req[p].size # 0 => Row(p).size = req[p].size
           /\ req[p].size = 0
              => /\ Row(p).size * Resolved(req[p]) <= req[p].amount
                 /\ req[p].amount < (Row(p).size + 1) * Resolved(req[p])

\* an amount that is no multiple of the price bought the floored size
C11_Witness ==
    \E p \in Procs :
        /\ pc[p] = "done" /\ res[p] = "success"
        /\ req[p].side = "BUY" /\ req[p].size = 0
        /\ Row(p).size >= 1
        /\ Row(p).size * Resolved(req[p]) < req[p].amount

\* a BUY or SELL request by amount, of an existing user on an existing
\* instrument, whose amount is below its execution price
Dust(r) ==
    /\ r.op = "execute" /\ r.side \in {"BUY", "SELL"}
    /\ findUserById(r.userId) /\ findInstrumentById(r.instrumentId)
    /\ r.size = 0
    /\ Resolved(r) # 0 /\ r.amount < Resolved(r)

\* C12: executeOrder for an amount below the execution price inserts exactly
\* one row, of size 0 and status REJECTED, without reading or locking the
\* cash or the position, and returns success.
C12_DustRejection ==
    /\ [][\A p \in Procs :
            (pc[p] = "idle" /\ pc'[p] # "idle" /\ Dust(req'[p]))
            => /\ pc'[p] = "pending"
               /\ Len(orders') = Len(orders) + 1
               /\ req'[p].orderId = Len(orders')
               /\ orders'[Len(orders')].size = 0
               /\ orders'[Len(orders')].status = "REJECTED"
               /\ \A i \in Ids : orders'[i] = orders[i]
               /\ locks' = locks /\ snap' = snap]_vars
    /\ [](\A p \in Procs :
            (Dust(req[p]) /\ pc[p] = "done")
            => /\ res[p] = "success"
               /\ Row(p).size = 0 /\ Row(p).status = "REJECTED"
               /\ Len(orders) = req[p].orderId)

\* a BUY for an amount below the price is REJECTED though the user has cash
C12_Witness ==
    \E p \in Procs :
        /\ Dust(req[p]) /\ pc[p] = "done" /\ res[p] = "success"
        /\ req[p].side = "BUY"
        /\ Row(p).status = "REJECTED" /\ Row(p).size = 0
        /\ getUserAvailableCash(req[p].userId, ARS_INSTRUMENT_ID, Before(p))
             >= req[p].amount

\* the BUY or SELL of p has size > 0 and enough cash or shares
PassesValidation(p) ==
    /\ req[p].orderSize > 0
    /\ req[p].side = "BUY"
       => req[p].orderSize * req[p].executionPrice
            <= getUserAvailableCash(req[p].userId, ARS_INSTRUMENT_ID, Before(p))
    /\ req[p].side = "SELL"
       => req[p].orderSize
            <= getUserPositionForInstrument(req[p].userId, req[p].instrumentId,
                                            Before(p))

\* C13: a BUY or SELL that passes validation is persisted FILLED when MARKET
\* and NEW when LIMIT; every NEW order is a LIMIT BUY or a LIMIT SELL.
C13_StatusAssignment ==
    /\ \A p \in Procs :
         (Persisted(p) /\ req[p].side \in {"BUY", "SELL"} /\ PassesValidation(p))
         => Row(p).status = IF req[p].type = "MARKET" THEN "FILLED" ELSE "NEW"
    /\ \A i \in Ids :
         orders[i].status = "NEW"
         => orders[i].type = "LIMIT" /\ orders[i].side \in {"BUY", "SELL"}

\* a LIMIT SELL of shares the user holds rests as NEW beside a FILLED MARKET BUY
C13_Witness ==
    \E p \in Procs :
        /\ pc[p] = "done" /\ req[p].side = "SELL" /\ req[p].type = "LIMIT"
        /\ PassesValidation(p) /\ Row(p).status = "NEW"
        /\ \E i \in Committed :
             /\ orders[i].type = "MARKET" /\ orders[i].side = "BUY"
             /\ orders[i].status = "FILLED"

\* row i as every transaction will see it once it is committed
Stored(table, i) == [table[i] EXCEPT !.xid = 0]

C16_CancelStateMachine ==
    /\ [](\A p \in Procs :
            req[p].op = "cancel"
            => LET id == req[p].orderId
                   exists == id \in Committed
                   owned == exists /\ orders[id].userId = req[p].userId
               IN /\ pc[p] = "failed"
                     => /\ ~exists => res[p] = "OrderNotFound"
                        /\ owned => /\ orders[id].status
                                        \in {"FILLED", "REJECTED", "CANCELLED"}
                                     /\ res[p] = NotNew(orders[id].status)
                        /\ res[p] \in NotFound \cup BusinessRule
                  /\ pc[p] = "pending" => owned /\ orders[id].status = "NEW"
                  /\ pc[p] = "done"
                     => /\ owned /\ orders[id].status = "CANCELLED"
                        /\ res[p] = "success")
    /\ [][\A p \in Procs :
            (req'[p].op = "cancel" /\ pc'[p] # pc[p])
            => IF pc'[p] = "done"
               THEN /\ orders[req[p].orderId].status = "NEW"
                    /\ orders' = [orders EXCEPT
                                    ![req[p].orderId].status = "CANCELLED"]
               ELSE orders' = orders]_vars

\* cancelling an order that is already CANCELLED names that status
C16_Witness ==
    \E p \in Procs :
        /\ req[p].op = "cancel" /\ pc[p] = "failed"
        /\ req[p].orderId \in Committed
        /\ orders[req[p].orderId].userId = req[p].userId
        /\ res[p] = NotNew("CANCELLED")

\* C17: cancelOrder by a user who does not own the order throws the same
\* BusinessRule error (not found or not owned) whatever the status of the
\* order, and whatever its other fields (those of any order of the ledger).
C17_NoLeak ==
    /\ (\A i \in Committed, j \in Committed, userId \in Users \cup {NoUser} :
            userId # orders[i].userId
            => \A status \in ORDER_STATUSES :
                 cancelOrderCheck(TRUE,
                                  [orders[j] EXCEPT !.id = i,
                                      !.userId = orders[i].userId,
                                      !.status = status],
                                  userId) = "NotOwned")
    /\ (\A p \in Procs :
            (/\ req[p].op = "cancel" /\ pc[p] \notin {"idle", "validate", "waiting"}
             /\ req[p].orderId \in Committed
             /\ orders[req[p].orderId].userId # req[p].userId)
            => pc[p] = "failed" /\ res[p] = "NotOwned")

\* a user who is not the owner tried to cancel a FILLED order and a NEW one
C17_Witness ==
    \E p \in Procs :
        /\ req[p].op = "cancel" /\ pc[p] = "failed" /\ res[p] = "NotOwned"
        /\ req[p].orderId \in Committed
        /\ orders[req[p].orderId].userId # req[p].userId
        /\ orders[req[p].orderId].status = "FILLED"
        /\ \E j \in Committed : orders[j].status = "NEW"

\* C15: the only change ever made to a row is status NEW -> CANCELLED: a
\* FILLED, REJECTED or CANCELLED row keeps its status, every row keeps its
\* user, instrument, side, type, size and price, and no row disappears.
C15_OneWayStatus ==
    [][\A i \in Ids :
         /\ i \in DOMAIN orders'
         /\ [Stored(orders', i) EXCEPT !.status = "NEW"]
              = [Stored(orders, i) EXCEPT !.status = "NEW"]
         /\ orders'[i].status # orders[i].status
            => /\ orders[i].status = "NEW" /\ orders'[i].status = "CANCELLED"
               /\ orders[i].xid = 0
         /\ orders[i].xid \in {0, Aborted} => orders'[i].xid = orders[i].xid]_vars

\* one order was cancelled, and a later cancellation of it was refused
C15_Witness ==
    \E p \in Procs :
        /\ req[p].op = "cancel" /\ pc[p] = "failed"
        /\ req[p].orderId \in Committed
        /\ res[p] = NotNew("CANCELLED")
        /\ \E i \in Committed : orders[i].status = "FILLED"

\* C18: two cancelOrder calls of the owner on one NEW order: the row lock lets
\* one of them proceed and the other waits; when the first has committed, the
\* waiting call gets the row as CANCELLED and throws BusinessRule naming
\* CANCELLED; the status is written once (never by two open transactions,
\* and each commit writes NEW -> CANCELLED).
C18_ConcurrentCancel ==
    /\ [](\A p \in Procs :
            req[p].op = "cancel"
            => LET Others(states) ==
                       {q \in Procs \ {p} :
                           /\ req[q].op = "cancel"
                           /\ req[q].orderId = req[p].orderId
                           /\ pc[q] \in states}
               IN /\ pc[p] = "pending"
                     => /\ Others({"pending"}) = {}
                        /\ \A q \in Others({"done", "failed"}) :
                              res[q] # "success"
                  /\ (/\ pc[p] = "waiting"
                      /\ req[p].orderId \in Committed
                      /\ orders[req[p].orderId].status = "NEW")
                     => Others({"pending"}) # {})
    /\ [][\A p \in Procs :
            req[p].op = "cancel"
            => /\ (/\ pc[p] = "waiting" /\ pc'[p] # "waiting"
                   /\ res'[p] # "Transient"
                   /\ orders[req[p].orderId].status = "CANCELLED")
                  => /\ pc'[p] = "failed"
                     /\ res'[p] = NotNew("CANCELLED")
                     /\ orders' = orders
               /\ (pc[p] = "pending" /\ pc'[p] = "done")
                  => /\ orders[req[p].orderId].status = "NEW"
                     /\ orders'[req[p].orderId].status = "CANCELLED"
                     /\ res'[p] = "success"]_vars

\* one call succeeded; the other, which waited for the row, was refused
C18_Witness ==
    \E p \in Procs : \E q \in Procs \ {p} :
        /\ req[p].op = "cancel" /\ req[q].op = "cancel"
        /\ req[p].orderId = req[q].orderId
        /\ req[p].userId = req[q].userId
        /\ pc[p] = "done" /\ res[p] = "success"
        /\ pc[q] = "failed" /\ res[q] = NotNew("CANCELLED")
        /\ tx[q].waited

\* the call of p has left transaction()
Exited(p) == pc[p] \in {"done", "failed"}

\* the body of the call of p ran and returned normally
BodyReturned(p) ==
    /\ tx[p].acquired = 1 /\ tx[p].fault # "begin"
    /\ tx[p].raised = "none"
    /\ pc[p] \in {"pending", "done", "failed"}

\* C19: transaction() issues COMMIT exactly when the body returned normally;
\* when the body raised it issues ROLLBACK and the caller receives the error
\* the body raised; on every exit (return, failure of the body, of BEGIN, of
\* COMMIT or of ROLLBACK) the connection it acquired is released once, and
\* never before the exit.
C19_Transaction ==
    \A p \in Procs :
        /\ tx[p].acquired <= 1
        /\ tx[p].released = IF Exited(p) THEN tx[p].acquired ELSE 0
        /\ Exited(p)
           => /\ tx[p].commits = IF BodyReturned(p) THEN 1 ELSE 0
              /\ pc[p] = "done" => BodyReturned(p) /\ tx[p].rollbacks = 0
              /\ tx[p].raised # "none"
                 => tx[p].rollbacks = 1 /\ res[p] = tx[p].raised

\* the ledger every other transaction and reader sees
Ledger == [i \in Committed |-> orders[i]]

\* a call that failed ends: nothing runs again, the caller has the error
NoRetry ==
    \A p \in Procs :
        /\ tx'[p].acquired <= 1 /\ tx'[p].commits <= 1
        /\ (pc[p] = "failed" /\ pc'[p] # "failed")
           => pc'[p] = "idle" /\ req'[p] = NoReq /\ orders' = orders

\* C20 as stated: a step in which a call fails leaves the committed ledger
\* as it was; the committed ledger changes only in the step in which a call
\* succeeds, and then by the whole effect of that call; a failed call is not
\* run again.
C20_AllOrNothing ==
    [][/\ \A p \in Procs :
            (pc'[p] = "failed" /\ pc[p] # "failed") => Ledger' = Ledger
       /\ Ledger' # Ledger
          => \E p \in Procs :
                pc[p] = "pending" /\ pc'[p] = "done" /\ orders' = Applied(p)
       /\ NoRetry]_vars

\* C20, amended: a step in which a call fails leaves the committed ledger as
\* it was, unless the failure is that of COMMIT itself: then the ledger is as
\* it was or holds the whole effect of the call. The committed ledger
\* changes only in the step in which a call's COMMIT is issued, and then by
\* the whole effect of that call; a failed call is not run again.
C20_AllOrNothingButCommit ==
    [][/\ \A p \in Procs :
            (pc'[p] = "failed" /\ pc[p] # "failed")
            => \/ Ledger' = Ledger
               \/ /\ pc[p] = "pending" /\ tx[p].fault = "commit"
                  /\ tx'[p].commits = 1
                  /\ orders' = Applied(p)
       /\ Ledger' # Ledger
          => \E p \in Procs :
                /\ pc[p] = "pending" /\ pc'[p] \in {"done", "failed"}
                /\ tx'[p].commits = 1
                /\ orders' = Applied(p)
       /\ NoRetry]_vars

\* COMMIT rejected and the caller has the error, yet the order is in the ledger
C20_Witness ==
    \E p \in Procs :
        /\ pc[p] = "failed" /\ res[p] = "ConnectionError"
        /\ tx[p].fault = "commit" /\ tx[p].commits = 1
        /\ req[p].op = "execute" /\ req[p].orderId \in Committed
        /\ \E q \in Procs \ {p} : pc[q] = "failed" /\ tx[q].raised = "Transient"

\* C30: an order row has size 0 only if its status is REJECTED (cash requests
\* given as an amount below 1 included); every FILLED, NEW and CANCELLED order
\* has size at least 1.
C30_SizeZeroRejected ==
    \A i \in Ids :
        /\ orders[i].size = 0 => orders[i].status = "REJECTED"
        /\ orders[i].status \in {"FILLED", "NEW", "CANCELLED"}
           => orders[i].size >= 1

\* the elements of a sequence
Range(s) == {s[k] : k \in DOMAIN s}

\* the creation timestamp of the last order of a page
LastDatetime(page) == orders[page[Len(page)]].datetime

\* what getUserOrders returned in this step
Page(v) == [orders |-> v.rows, nextCursor |-> v.nextCursor, hasMore |-> v.hasMore]

PortfolioOutputs(userId) ==
    {getUserPortfolio(userId, allOrders,
                      getUserAvailableCash(userId, ARS_INSTRUMENT_ID, Committed),
                      marketdata) :
        allOrders \in getFilledOrdersByUserId(userId)}

\* averageBuyPrice as getUserPortfolio returns it for an entry of the replay
AverageBuyPrice(position) ==
    Position(StockA, position, CloseA).averageBuyPrice

\* the steps of a replay in which a SELL of a part of the position is applied
PartialSells(stockOrders) ==
    {k \in DOMAIN stockOrders :
        LET order == orders[stockOrders[k]]
            before == Replay(stockOrders, k - 1)[order.instrumentId]
        IN /\ order.side = "SELL"
           /\ 0 < order.size /\ order.size < before.quantity}

\* C23: in the replay of a user's FILLED orders, a SELL of size s with
\* 0 < s < quantity takes s off the quantity and leaves the average buy
\* price of the position as it was, whatever the price of the SELL; the
\* market value of a returned position is its quantity times the current
\* price.
C23_AverageCost ==
    \A userId \in Users : \A allOrders \in getFilledOrdersByUserId(userId) :
        LET stockOrders == StockOrders(allOrders)
            portfolio ==
                getUserPortfolio(userId, allOrders,
                                 getUserAvailableCash(userId, ARS_INSTRUMENT_ID,
                                                      Committed),
                                 marketdata)
        IN /\ \A k \in PartialSells(stockOrders) :
                 LET order == orders[stockOrders[k]]
                     before == Replay(stockOrders, k - 1)[order.instrumentId]
                     after == Replay(stockOrders, k)[order.instrumentId]
                 IN /\ after.quantity = before.quantity - order.size
                    /\ AverageBuyPrice(after) = AverageBuyPrice(before)
           /\ \A k \in DOMAIN portfolio.positions :
                 LET position == portfolio.positions[k]
                 IN position.marketValue
                        = position.quantity * position.currentPrice

\* a part of a position bought at two prices, whose average cost is not a
\* whole number of units, is sold at a price other than the average, and the
\* rest is valued
C23_Witness ==
    \E allOrders \in getFilledOrdersByUserId(1) :
        LET stockOrders == StockOrders(allOrders)
        IN /\ \E k \in PartialSells(stockOrders) :
                 LET order == orders[stockOrders[k]]
                     before == Replay(stockOrders, k - 1)[order.instrumentId]
                 IN /\ before.totalCost % before.quantity # 0
                    /\ order.price * DecimalScale
                           # RoundDiv(before.totalCost, before.quantity)
           /\ getUserPortfolio(1, allOrders, 0, marketdata).positions # <<>>

\* the instruments of the positions of a portfolio
Held(portfolio) ==
    {portfolio.positions[k].instrumentId : k \in DOMAIN portfolio.positions}

C24_NetQuantity ==
    \A userId \in Users : \A portfolio \in PortfolioOutputs(userId) :
        /\ \A k \in DOMAIN portfolio.positions :
              LET position == portfolio.positions[k]
              IN /\ position.quantity > 0
                 /\ position.quantity
                      = getUserPositionForInstrument(userId,
                                                     position.instrumentId,
                                                     Committed)
        /\ \A instrumentId \in Instruments :
              getUserPositionForInstrument(userId, instrumentId, Committed) = 0
              => instrumentId \notin Held(portfolio)

\* C26: with no write to the orders or to the snapshots in between, two calls
\* of getUserPortfolio for a user return the same output, also when FILLED
\* orders of the user have the same creation timestamp: in every state there
\* is one output the call can return.
C26_Idempotent ==
    \A userId \in Users : Cardinality(PortfolioOutputs(userId)) = 1

\* the committed ledger changes in this step, and only by orders inserted as
\* NEW or REJECTED and by NEW orders becoming CANCELLED
InertChange ==
    /\ Ledger' # Ledger
    /\ marketdata' = marketdata
    /\ \A i \in Committed' :
          IF i \in Committed
          THEN \/ orders'[i] = orders[i]
               \/ /\ orders[i].status = "NEW"
                  /\ orders'[i] = [orders[i] EXCEPT !.status = "CANCELLED"]
          ELSE orders'[i].status \in {"NEW", "REJECTED"}

\* C27: inserting an order with status NEW or REJECTED, or changing an order
\* from NEW to CANCELLED, leaves the available cash of every user, the
\* position of every user in every instrument and the output of
\* getUserPortfolio as they were.
C27_OnlyFilled ==
    [][InertChange
       => \A userId \in Users :
             /\ getUserAvailableCash(userId, ARS_INSTRUMENT_ID, Committed)'
                  = getUserAvailableCash(userId, ARS_INSTRUMENT_ID, Committed)
             /\ \A instrumentId \in Instruments :
                   getUserPositionForInstrument(userId, instrumentId, Committed)'
                     = getUserPositionForInstrument(userId, instrumentId,
                                                    Committed)
             /\ PortfolioOutputs(userId)' = PortfolioOutputs(userId)]_vars

\* a resting LIMIT BUY of a user who has cash has just been cancelled
C27_Witness ==
    /\ pc[1] = "done" /\ req[1].op = "cancel"
    /\ req[1].orderId \in Committed
    /\ orders[req[1].orderId].status = "CANCELLED"
    /\ orders[req[1].orderId].side = "BUY"
    /\ getUserAvailableCash(1, ARS_INSTRUMENT_ID, Committed) > 0

\* the rows of the orders table that belong to a user
RowsOf(userId) == {i \in Ids : orders[i].userId = userId}

\* the rows the locking statement of a transaction asks for
Needs(p) ==
    LockSet(req[p], IF pc[p] = "waiting" THEN snap[p] ELSE Committed)

\* the transactions whose row locks keep the locking statement of p waiting
Blockers(p) == {q \in Procs \ {p} : locks[q] \cap Needs(p) # {}}

\* a cancelOrder call that names an order of another user
ForeignCancel(p) ==
    /\ req[p].op = "cancel"
    /\ req[p].orderId \in Ids
    /\ orders[req[p].orderId].userId # req[p].userId

C29_ReadsTakeNoLocks ==
    /\ view.stage = "done"
       => /\ ENABLED GetUserPortfolioStart({1})
          /\ \A orderId \in 1..ReadMaxOrders : ENABLED GetOrderById({orderId})
          /\ ENABLED GetUserOrders({1}, {1}, {NoCursor})
    /\ (view.op = "orders" /\ view.hasMore /\ view.first = <<>>)
       => ENABLED GetNextPage
    /\ view.stage = "cash" => ENABLED GetUserPortfolioCash
    /\ view.stage = "prices" => ENABLED GetUserPortfolioFinish
    /\ \A p \in Procs :
          (pc[p] = "validate" /\ ~Blocked(p, LockSet(req[p], Committed)))
          => ENABLED LockingRead(p)

\* getUserPortfolio is about to read the cash of a user while a transaction
\* holds FOR UPDATE locks on FILLED orders of that user
C29_Witness ==
    /\ view.op = "portfolio" /\ view.stage = "cash"
    /\ \E p \in Procs :
          /\ pc[p] = "pending" /\ locks[p] # {}
          /\ locks[p] \subseteq CashRows(view.userId, Committed)

\* C39: every row written by executeOrder carries the userId, instrumentId,
\* side and type (MARKET or LIMIT) of the request that produced it, whatever
\* its status, a rejected CASH_OUT of type LIMIT included.
C39_RowCarriesRequest ==
    \A p \in Procs :
        Persisted(p)
        => /\ Row(p).userId = req[p].userId
           /\ Row(p).instrumentId = req[p].instrumentId
           /\ Row(p).side = req[p].side
           /\ Row(p).type = req[p].type

\* a BUY or SELL request of type LIMIT that gives no price
NoPrice(r) ==
    /\ r.op = "execute"
    /\ r.type = "LIMIT" /\ r.side \in {"BUY", "SELL"}
    /\ r.price = 0

\* C32: executeOrder called with type LIMIT and no price, for BUY or SELL,
\* with a size or with an amount, never inserts a row: the call fails, and
\* no row of a BUY or SELL has a price that is no decimal.
C32_NoPriceNoRow ==
    /\ \A p \in Procs :
          NoPrice(req[p])
          => /\ pc[p] \notin {"pending", "done"}
             /\ req[p].orderId = 0
             /\ \A i \in Ids : orders[i].xid # p
    /\ \A i \in Ids :
          orders[i].side \in {"BUY", "SELL"} => orders[i].price # 0

\* a LIMIT SELL of one share without a price, by a user who holds the share,
\* has failed after its locking read
C32_Witness ==
    \E p \in Procs :
        /\ NoPrice(req[p]) /\ req[p].side = "SELL" /\ req[p].size = 1
        /\ getUserPositionForInstrument(req[p].userId, req[p].instrumentId,
                                        Committed) >= 1
        /\ pc[p] = "failed" /\ res[p] = "InternalError"
        /\ tx[p].waited = FALSE /\ tx[p].acquired = 1

\* the steps of a replay in which a SELL meets a running quantity of 0
SellsAtZero(stockOrders) ==
    {k \in DOMAIN stockOrders :
        LET order == orders[stockOrders[k]]
        IN /\ order.side = "SELL"
           /\ Replay(stockOrders, k - 1)[order.instrumentId].quantity = 0}

\* C33: in the replay of a user's FILLED orders a SELL that meets a running
\* quantity of 0 for its instrument is skipped: no entry of the replay
\* changes, quantity stays 0 and totalCost stays what it was (0 when nothing
\* was bought). The replay goes on, a later BUY adding its size and its cost,
\* and getUserPortfolio returns a portfolio with the cash it was given.
C33_ReplaySkips ==
    \A userId \in Users : \A allOrders \in getFilledOrdersByUserId(userId) :
        LET stockOrders == StockOrders(allOrders)
            availableCash ==
                getUserAvailableCash(userId, ARS_INSTRUMENT_ID, Committed)
            portfolio ==
                getUserPortfolio(userId, allOrders, availableCash, marketdata)
        IN /\ \A k \in SellsAtZero(stockOrders) :
                 LET i == orders[stockOrders[k]].instrumentId
                 IN /\ Replay(stockOrders, k) = Replay(stockOrders, k - 1)
                    /\ Replay(stockOrders, k)[i].quantity = 0
           /\ \A k \in DOMAIN stockOrders :
                 LET order == orders[stockOrders[k]]
                     before == Replay(stockOrders, k - 1)[order.instrumentId]
                     after == Replay(stockOrders, k)[order.instrumentId]
                 IN order.side = "BUY"
                    => /\ after.quantity = before.quantity + order.size
                       /\ after.totalCost
                            = before.totalCost
                              + order.size * order.price * DecimalScale
           /\ portfolio.availableCash = availableCash
           /\ Len(portfolio.positions) <= Cardinality(Instruments)

\* a SELL is replayed before the BUY of the shares it sold: it is skipped, the
\* BUY is applied and the portfolio has a position
C33_Witness ==
    \E allOrders \in getFilledOrdersByUserId(1) :
        LET stockOrders == StockOrders(allOrders)
        IN /\ \E k \in SellsAtZero(stockOrders) :
                 \E j \in DOMAIN stockOrders :
                     /\ j > k /\ orders[stockOrders[j]].side = "BUY"
                     /\ Replay(stockOrders, j)[StockA].quantity > 0
           /\ getUserPortfolio(1, allOrders, 0, marketdata).positions # <<>>

\* the cash of a user over the FILLED orders among `vis`
FilledCash(userId, vis) ==
    LET rows == {i \in vis : /\ orders[i].userId = userId
                             /\ orders[i].status = "FILLED"}
    IN SumOver(rows, [i \in rows |-> CashEffect(orders[i], ARS_INSTRUMENT_ID)])

\* the shares of an instrument a user holds over the FILLED orders among `vis`
FilledPosition(userId, instrumentId, vis) ==
    LET rows == {i \in vis : /\ orders[i].userId = userId
                             /\ orders[i].instrumentId = instrumentId
                             /\ orders[i].status = "FILLED"
                             /\ orders[i].side \in {"BUY", "SELL"}}
    IN SumOver(rows, [i \in rows |-> IF orders[i].side = "BUY"
                                     THEN orders[i].size
                                     ELSE 0 - orders[i].size])

\* the committed NEW LIMIT orders of a user on one side
Resting(userId, side) ==
    {i \in Committed : /\ orders[i].userId = userId
                       /\ orders[i].side = side
                       /\ orders[i].type = "LIMIT"
                       /\ orders[i].status = "NEW"}

\* C31: a LIMIT order reserves nothing. A LIMIT BUY is stored NEW exactly
\* when its cost is at most the cash over the FILLED orders its locking read
\* returned, and a LIMIT SELL exactly when its size is at most the position
\* over those FILLED orders, whatever NEW orders rest; it is stored REJECTED
\* otherwise.
C31_NothingReserved ==
    [][\A p \in Procs :
         (/\ pc[p] \in {"validate", "waiting"} /\ pc'[p] = "pending"
          /\ req[p].op = "execute" /\ req[p].type = "LIMIT"
          /\ req[p].side \in {"BUY", "SELL"})
         => LET r == req[p]
                vis == IF pc[p] = "waiting" THEN snap[p] ELSE Committed
                row == orders'[req'[p].orderId]
                fits == IF r.side = "BUY"
                        THEN r.orderSize * r.executionPrice
                                <= FilledCash(r.userId, vis)
                        ELSE r.orderSize
                                <= FilledPosition(r.userId, r.instrumentId, vis)
            IN row.status = IF fits THEN "NEW" ELSE "REJECTED"]_vars

\* LIMIT BUYs, each costing no more than the cash, rest for more than the
\* cash in total, and LIMIT SELLs rest for more shares than the user holds
C31_Witness ==
    LET cash == getUserAvailableCash(1, ARS_INSTRUMENT_ID, Committed)
        buys == Resting(1, "BUY")
        sells == Resting(1, "SELL")
    IN /\ cash > 0
       /\ \A i \in buys : orders[i].size * orders[i].price <= cash
       /\ SumOver(buys, [i \in buys |-> orders[i].size * orders[i].price]) > cash
       /\ SumOver(sells, [i \in sells |-> orders[i].size])
             > getUserPositionForInstrument(1, StockA, Committed)
       /\ getUserPositionForInstrument(1, StockA, Committed) > 0

\* a MARKET BUY or SELL
MarketStock(r) ==
    r.op = "execute" /\ r.type = "MARKET" /\ r.side \in {"BUY", "SELL"}

\* C34: the price of a MARKET order is the close of the latest snapshot at
\* the moment the request starts, before it asks for a lock; it is not read
\* again, whatever snapshots are appended while the request waits for its
\* lock: the row is stored at that close, and a BUY is FILLED exactly when
\* its size at that close is within the cash its locking read returned.
C34_PriceReadOnce ==
    [][\A p \in Procs :
         /\ (pc[p] = "idle" /\ pc'[p] # "idle" /\ MarketStock(req'[p])
             /\ pc'[p] # "failed")
            => req'[p].executionPrice
                  = getLatestMarketDataForInstrument(req'[p].instrumentId)
         /\ (pc[p] \in {"validate", "waiting"} /\ MarketStock(req[p]))
            => /\ req'[p].executionPrice = req[p].executionPrice
               /\ pc'[p] = "pending"
                  => LET r == req[p]
                         vis == IF pc[p] = "waiting" THEN snap[p]
                                ELSE Committed
                         row == orders'[req'[p].orderId]
                     IN /\ row.price = r.executionPrice
                        /\ r.side = "BUY"
                           => (row.status = "FILLED"
                               <=> r.orderSize * r.executionPrice
                                      <= FilledCash(r.userId, vis))]_vars

\* all the cash a user ever deposited
Deposited(userId) ==
    LET rows == {i \in Committed : /\ orders[i].userId = userId
                                   /\ orders[i].side = "CASH_IN"
                                   /\ orders[i].status = "FILLED"}
    IN SumOver(rows, [i \in rows |-> orders[i].size * orders[i].price])

\* a MARKET BUY waited for its lock while the close went above the cash: it
\* is FILLED at the close it had read
C34_Witness ==
    \E p \in Procs :
        /\ Persisted(p) /\ MarketStock(req[p]) /\ req[p].side = "BUY"
        /\ tx[p].waited
        /\ Row(p).status = "FILLED"
        /\ Row(p).price = CloseA
        /\ getLatestMarketDataForInstrument(StockA) = 2 * CloseA
        /\ Row(p).size * getLatestMarketDataForInstrument(StockA)
              > Deposited(1)

\* a call of getUserPortfolio has returned a portfolio
Returned ==
    view.op = "portfolio" /\ view.stage = "done" /\ view.err = "none"

\* C38 as stated: the availableCash and the positions one getUserPortfolio
\* call returns are derived from the same set of FILLED orders, also when an
\* executeOrder of the user commits while the call is in progress.
C38_SingleState ==
    Returned
    => /\ view.out.availableCash
             = FilledCash(view.userId, Range(view.allOrders))
       /\ Held(view.out)
             \subseteq DOMAIN calculatePositions(StockOrders(view.allOrders))

\* C38, amended: the positions are derived from the FILLED orders committed
\* when the call read them, the availableCash from the FILLED orders
\* committed when the call read the cash, later in the same call. The second
\* set holds the first, and is the first when no order of the user was
\* committed in between: the response then is that of one ledger state.
C38_TwoReads ==
    [][/\ (view.op = "portfolio" /\ view.stage = "cash" /\ view' # view)
          => LET first == Range(view.allOrders)
                 second == CashRows(view.userId, Committed)
             IN /\ first \subseteq second
                /\ view'.availableCash = FilledCash(view.userId, second)
                /\ view'.allOrders = view.allOrders
                /\ first = second
                   => view'.availableCash = FilledCash(view.userId, first)
       /\ (view.op = "portfolio" /\ view.stage \in {"cash", "prices"}
           /\ view'.stage = "done")
          => /\ view'.out.availableCash = view'.availableCash
             /\ Held(view'.out)
                   \subseteq DOMAIN calculatePositions(StockOrders(view.allOrders))
       ]_vars

\* a BUY was committed between the two reads of a call: the portfolio has
\* the cash less the cost of the BUY and no position
C38_Witness ==
    /\ Returned
    /\ \E i \in CashRows(view.userId, Committed) \ Range(view.allOrders) :
          /\ orders[i].side = "BUY"
          /\ view.out.availableCash
                = FilledCash(view.userId, Range(view.allOrders))
                  - orders[i].size * orders[i].price
    /\ view.out.positions = <<>>

\* the orders of a user in the committed ledger
OrdersOf(userId) == {i \in Committed : orders[i].userId = userId}

\* the page the client holds is a first page of the ledger as it is now: the
\* ledger the next page is read from is the one this page was read from
FirstPageOfLedger ==
    /\ view.op = "orders" /\ view.err = "none" /\ view.first = <<>>
    /\ view.cursor = NoCursor
    /\ \E sorted \in OrderByDatetimeDesc(MatchingRows(view.userId, NoCursor)) :
          Page(view) = getOrdersByUserId(view.limit, sorted)

\* C35: with no write in between, the first page and the page fetched with
\* its nextCursor, when that page says hasMore is false, hold every order of
\* the user exactly once, also when orders of the user were created at the
\* same time and one of them is the last of the first page.
C35_Complete ==
    [][(/\ FirstPageOfLedger /\ view.hasMore
        /\ view' # view /\ view'.op = "orders" /\ view'.first = view.rows
        /\ ~view'.hasMore)
       => /\ Range(view.rows) \cup Range(view'.rows) = OrdersOf(view.userId)
          /\ Range(view.rows) \cap Range(view'.rows) = {}
          /\ Cardinality(Range(view'.rows)) = Len(view'.rows)]_vars

\* the same, for a user whose orders were all created in different
\* milliseconds
C35_CompleteWithoutTies ==
    [][(/\ FirstPageOfLedger /\ view.hasMore
        /\ view' # view /\ view'.op = "orders" /\ view'.first = view.rows
        /\ ~view'.hasMore
        /\ \A i, j \in OrdersOf(view.userId) :
              i # j => ToDate(orders[i].datetime) # ToDate(orders[j].datetime))
       => /\ Range(view.rows) \cup Range(view'.rows) = OrdersOf(view.userId)
          /\ Range(view.rows) \cap Range(view'.rows) = {}
          /\ Cardinality(Range(view'.rows)) = Len(view'.rows)]_vars

\* the transaction of p holds its client
HoldsClient(p) == tx[p].acquired = 1 /\ tx[p].released = 0

\* p asks the pool for a connection
RequestsConnection(p) == pc[p] = "lookup"

\* C36: an executeOrder call that holds its transaction connection asks the
\* pool for no further connection, and the calls in progress are never all
\* waiting for a connection none of them will return.
C36_OneConnection ==
    /\ \A p \in Procs : ~(HoldsClient(p) /\ RequestsConnection(p))
    /\ ~(/\ InUse = PoolSize
         /\ \A p \in Procs : HoldsClient(p) => RequestsConnection(p))

\* the transactions that have begun and neither committed nor rolled back
Unfinished == {p \in Procs : pc[p] \in {"validate", "waiting", "pending"}}

\* p waits for a row lock: every row it has yet to lock is locked by another
WaitsForLock(p) ==
    /\ pc[p] = "waiting"
    /\ ToLock(p) # {}
    /\ \A i \in ToLock(p) : ~Free(p, i)

\* C37: in no reachable state does every unfinished transaction wait for a
\* row lock another transaction holds.
C37_NoDeadlock ==
    ~(Unfinished # {} /\ \A p \in Unfinished : WaitsForLock(p))

\* C37, second half: under fair scheduling every transaction that has begun
\* commits or rolls back in the end.
C37_Terminates ==
    \A p \in Procs :
        (p \in Unfinished) ~> (pc[p] \in {"done", "failed"})

====
